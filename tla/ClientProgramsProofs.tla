------------------------ MODULE ClientProgramsProofs -------------------------
(***************************************************************************)
(* Proofs about ClientPrograms, for arrays of every length and whichever    *)
(* allocation fails: a program does not leave a job behind.  The argument   *)
(* is about the texts of the programs, and not about their memory: between  *)
(* the statement that registers a job and one that removes it no check can  *)
(* lead past the removal, so that only a request that fails can.            *)
(***************************************************************************)
EXTENDS ClientPrograms, SequenceTheorems, TLAPS

\* Statements in sequence; such that register no job; and such that moreover
\* do not branch when no request fails.
IsSequence(s) == \E S : s \in Seq(S)
IsPlain(s)    == IsSequence(s) /\ \A i \in 1 .. Len(s) : s[i].op # "ADM_register_job"
IsOnward(s)   == IsPlain(s) /\ \A i \in 1 .. Len(s) : s[i].do # "check"

\* Statement r is reached from statement i, and it removes the job.
Removal(s, i, r) ==
    /\ s[r].op = "ADM_remove_job" /\ s[r].do = "notice"
    /\ \A k \in i .. r : s[k].do # "check"

\* Once the job is registered, the sequence does not branch.
StaysOpen(s) ==
    /\ IsSequence(s)
    /\ \A i \in 1 .. Len(s) : s[i].op = "ADM_register_job" =>
           \A k \in i .. Len(s) : s[k].do # "check"

\* The sequence reaches the removal of the job.
Removes(s) == IsPlain(s) /\ \E r \in 1 .. Len(s) : Removal(s, 1, r)

\* A sequence that registers a job removes it.
IsBalanced(s) ==
    /\ IsSequence(s)
    /\ \A i \in 1 .. Len(s) : s[i].op = "ADM_register_job" =>
           \E r \in i + 1 .. Len(s) : Removal(s, i, r)

IsProgram(p) ==
    /\ IsBalanced(p.statements)
    /\ p.cleanup \in Nat \ {0}

----------------------------------------------------------------------------
(* Sequences of statements.                                                *)

\* u is s and then t.
Joins(s, t, u) ==
    /\ IsSequence(u)
    /\ Len(s) \in Nat /\ Len(t) \in Nat
    /\ Len(u) = Len(s) + Len(t)
    /\ \A i \in 1 .. Len(s) : u[i] = s[i]
    /\ \A i \in Len(s) + 1 .. Len(u) : u[i] = t[i - Len(s)]
    /\ \A i \in 1 .. Len(t) : u[Len(s) + i] = t[i]

\* The elements of a concatenation.
LEMMA Elements ==
    ASSUME NEW s, IsSequence(s), NEW t, IsSequence(t)
    PROVE  Joins(s, t, s \o t)
<1>1. PICK S : s \in Seq(S)
  BY DEF IsSequence
<1>2. PICK T : t \in Seq(T)
  BY DEF IsSequence
<1>3. s \in Seq(S \cup T) /\ t \in Seq(S \cup T)
  BY <1>1, <1>2
<1> QED
  BY <1>3, ConcatProperties DEF IsSequence, Joins

\* A sequence has a length.
LEMMA Lengths ==
    ASSUME NEW s, IsSequence(s)
    PROVE  Len(s) \in Nat
BY DEF IsSequence

\* Statements that register no job and then a sequence that does not branch
\* once it has.
LEMMA PlainThenOpen ==
    ASSUME NEW s, IsPlain(s), NEW t, StaysOpen(t)
    PROVE  StaysOpen(s \o t)
<1> SUFFICES ASSUME NEW u, Joins(s, t, u) PROVE StaysOpen(u)
  BY Elements DEF StaysOpen, IsPlain
<1>1. ASSUME NEW i \in 1 .. Len(u), u[i].op = "ADM_register_job",
             NEW k \in i .. Len(u)
      PROVE  u[k].do # "check"
  <2>1. i - Len(s) \in 1 .. Len(t) /\ t[i - Len(s)].op = "ADM_register_job"
    BY <1>1 DEF IsPlain, Joins
  <2>2. k - Len(s) \in i - Len(s) .. Len(t) /\ u[k] = t[k - Len(s)]
    BY <1>1, <2>1 DEF Joins
  <2> QED
    BY <2>1, <2>2 DEF StaysOpen
<1> QED
  BY <1>1 DEF StaysOpen, Joins

\* A sequence that does not branch, continued by one that does not.
LEMMA OpenThenOnward ==
    ASSUME NEW s, StaysOpen(s), NEW t, IsOnward(t)
    PROVE  StaysOpen(s \o t)
<1> SUFFICES ASSUME NEW u, Joins(s, t, u) PROVE StaysOpen(u)
  BY Elements DEF StaysOpen, IsPlain, IsOnward
<1>1. ASSUME NEW i \in 1 .. Len(u), u[i].op = "ADM_register_job",
             NEW k \in i .. Len(u)
      PROVE  u[k].do # "check"
  <2>1. i \in 1 .. Len(s) /\ s[i].op = "ADM_register_job"
    BY <1>1 DEF IsPlain, IsOnward, Joins
  <2>2. CASE k <= Len(s)
    BY <1>1, <2>1, <2>2 DEF StaysOpen, Joins
  <2>3. CASE k > Len(s)
    BY <1>1, <2>1, <2>3 DEF IsOnward, Joins
  <2> QED
    BY <1>1, <2>1, <2>2, <2>3 DEF Joins
<1> QED
  BY <1>1 DEF StaysOpen, Joins

\* The job is removed by what comes after.
LEMMA OpenThenRemoves ==
    ASSUME NEW s, StaysOpen(s), NEW t, Removes(t)
    PROVE  IsBalanced(s \o t)
<1> SUFFICES ASSUME NEW u, Joins(s, t, u) PROVE IsBalanced(u)
  BY Elements DEF StaysOpen, Removes, IsPlain
<1>1. PICK q \in 1 .. Len(t) : Removal(t, 1, q)
  BY DEF Removes
<1>2. ASSUME NEW i \in 1 .. Len(u), u[i].op = "ADM_register_job"
      PROVE  Len(s) + q \in i + 1 .. Len(u) /\ Removal(u, i, Len(s) + q)
  <2>1. i \in 1 .. Len(s) /\ s[i].op = "ADM_register_job"
    BY <1>2 DEF Removes, IsPlain, Joins
  <2>2. Len(s) + q \in i + 1 .. Len(u) /\ u[Len(s) + q] = t[q]
    BY <2>1 DEF Joins
  <2>3. ASSUME NEW k \in i .. Len(s) + q PROVE u[k].do # "check"
    <3>1. CASE k <= Len(s)
      BY <2>1, <3>1 DEF StaysOpen, Joins
    <3>2. CASE k > Len(s)
      <4>1. k - Len(s) \in 1 .. q /\ u[k] = t[k - Len(s)]
        BY <2>1, <3>2 DEF Joins
      <4> QED
        BY <1>1, <4>1 DEF Removal
    <3> QED
      BY <2>1, <3>1, <3>2 DEF Joins
  <2> QED
    BY <1>1, <2>2, <2>3 DEF Removal
<1> QED
  BY <1>2 DEF IsBalanced, Joins

\* What registers no job needs no removal, before and after what has one.
LEMMA PlainIsBalanced ==
    ASSUME NEW s, IsPlain(s)
    PROVE  IsBalanced(s) /\ StaysOpen(s)
BY DEF IsBalanced, StaysOpen, IsPlain

\* Before what has one.
LEMMA PlainThenBalanced ==
    ASSUME NEW s, IsPlain(s), NEW t, IsBalanced(t)
    PROVE  IsBalanced(s \o t)
<1> SUFFICES ASSUME NEW u, Joins(s, t, u) PROVE IsBalanced(u)
  BY Elements DEF IsBalanced, IsPlain
<1>1. ASSUME NEW i \in 1 .. Len(u), u[i].op = "ADM_register_job"
      PROVE  \E r \in i + 1 .. Len(u) : Removal(u, i, r)
  <2> DEFINE j == i - Len(s)
  <2>1. j \in 1 .. Len(t) /\ t[j].op = "ADM_register_job"
    BY <1>1 DEF IsPlain, Joins
  <2>2. PICK q \in j + 1 .. Len(t) : Removal(t, j, q)
    BY <2>1 DEF IsBalanced
  <2>3. Len(s) + q \in i + 1 .. Len(u) /\ u[Len(s) + q] = t[q]
    BY <2>1 DEF Joins
  <2>4. ASSUME NEW k \in i .. Len(s) + q PROVE u[k].do # "check"
    <3>1. k - Len(s) \in j .. q /\ u[k] = t[k - Len(s)]
      BY <2>1 DEF Joins
    <3> QED
      BY <2>2, <3>1 DEF Removal
  <2> QED
    BY <2>2, <2>3, <2>4 DEF Removal
<1> QED
  BY <1>1 DEF IsBalanced, Joins

\* After what has one.
LEMMA BalancedThenPlain ==
    ASSUME NEW s, IsBalanced(s), NEW t, IsPlain(t)
    PROVE  IsBalanced(s \o t)
<1> SUFFICES ASSUME NEW u, Joins(s, t, u) PROVE IsBalanced(u)
  BY Elements DEF IsBalanced, IsPlain
<1>1. ASSUME NEW i \in 1 .. Len(u), u[i].op = "ADM_register_job"
      PROVE  \E r \in i + 1 .. Len(u) : Removal(u, i, r)
  <2>1. i \in 1 .. Len(s) /\ s[i].op = "ADM_register_job"
    BY <1>1 DEF IsPlain, Joins
  <2>2. PICK q \in i + 1 .. Len(s) : Removal(s, i, q)
    BY <2>1 DEF IsBalanced
  <2>3. q \in i .. q /\ \A k \in i .. q : u[k] = s[k]
    BY <2>1 DEF Joins
  <2>4. q \in i + 1 .. Len(u)
    BY <2>1 DEF Joins
  <2> QED
    BY <2>2, <2>3, <2>4 DEF Removal
<1> QED
  BY <1>1 DEF IsBalanced, Joins

\* Of one statement or two.
LEMMA Short ==
    ASSUME NEW x, NEW y
    PROVE  /\ IsSequence(<<>>) /\ IsSequence(<<x>>) /\ IsSequence(<<x, y>>)
           /\ Len(<<>>) = 0 /\ Len(<<x>>) = 1 /\ Len(<<x, y>>) = 2
           /\ <<x>>[1] = x /\ <<x, y>>[1] = x /\ <<x, y>>[2] = y
BY <<>> \in Seq({x, y}), <<x>> \in Seq({x, y}), <<x, y>> \in Seq({x, y}) DEF IsSequence

\* What is plain, and goes on, is closed under concatenation.
LEMMA Closed ==
    ASSUME NEW s, IsPlain(s), NEW t, IsPlain(t)
    PROVE  /\ IsPlain(s \o t)
           /\ IsOnward(s) /\ IsOnward(t) => IsOnward(s \o t)
<1> SUFFICES ASSUME NEW u, Joins(s, t, u)
             PROVE  IsPlain(u) /\ (IsOnward(s) /\ IsOnward(t) => IsOnward(u))
  BY Elements DEF IsPlain
<1>1. \A i \in 1 .. Len(u) :
          \/ i \in 1 .. Len(s) /\ u[i] = s[i]
          \/ i - Len(s) \in 1 .. Len(t) /\ u[i] = t[i - Len(s)]
  BY DEF Joins
<1> QED
  BY <1>1 DEF IsPlain, IsOnward, Joins

\* An object is created and its creation asserted, or checked.
LEMMA Creations ==
    ASSUME NEW v, NEW f, NEW args, f # "ADM_register_job"
    PROVE  IsOnward(Asserted(v, f, args)) /\ IsPlain(Checked(v, f, args))
<1>1. /\ Set(v, f, args).op = f /\ Set(v, f, args).do = "set"
      /\ Asserts(v).op = "assert" /\ Asserts(v).do = "assert"
      /\ Checks(v).op = "check"
  BY DEF Set, Asserts, Checks, Statement
<1> DEFINE a == Asserted(v, f, args)
           c == Checked(v, f, args)
<1>2. /\ IsSequence(a) /\ Len(a) = 2 /\ a[1] = Set(v, f, args) /\ a[2] = Asserts(v)
      /\ IsSequence(c) /\ Len(c) = 2 /\ c[1] = Set(v, f, args) /\ c[2] = Checks(v)
  BY Short DEF Asserted, Checked
<1> HIDE DEF a, c
<1>3. IsOnward(a) /\ IsPlain(c)
  BY <1>1, <1>2 DEF IsPlain, IsOnward
<1> QED
  BY <1>3 DEF a, c

\* A program that registers no job.
LEMMA PlainProgram ==
    ASSUME NEW body, IsPlain(body), NEW cleanup, IsPlain(cleanup)
    PROVE  IsProgram(Program(body, cleanup))
<1>1. Len(body) \in Nat /\ IsPlain(body \o cleanup)
  BY Lengths, Closed DEF IsPlain
<1> QED
  BY <1>1, PlainIsBalanced DEF IsProgram, Program

\* A program whose cleanup removes the job.
LEMMA ProgramCleaningUp ==
    ASSUME NEW body, StaysOpen(body), NEW cleanup, Removes(cleanup)
    PROVE  IsProgram(Program(body, cleanup))
<1>1. Len(body) \in Nat
  BY Lengths DEF StaysOpen
<1> QED
  BY <1>1, OpenThenRemoves DEF IsProgram, Program

\* A program whose body removes the job.
LEMMA ProgramRemoving ==
    ASSUME NEW body, IsBalanced(body), NEW cleanup, IsPlain(cleanup)
    PROVE  IsProgram(Program(body, cleanup))
<1>1. Len(body) \in Nat
  BY Lengths DEF IsBalanced
<1> QED
  BY <1>1, BalancedThenPlain DEF IsProgram, Program

\* A statement that goes on.
GoesOn(s) == s.op # "ADM_register_job" /\ s.do # "check"

\* Statements that go on make sequences that do: one of them, two, three, six.
LEMMA Few ==
    ASSUME NEW a, GoesOn(a)
    PROVE  /\ IsOnward(<<a>>)
           /\ \A b : GoesOn(b) => IsOnward(<<a, b>>)
           /\ \A b, c : GoesOn(b) /\ GoesOn(c) => IsOnward(<<a, b, c>>)
           /\ \A b, c, d, e, f :
                  GoesOn(b) /\ GoesOn(c) /\ GoesOn(d) /\ GoesOn(e) /\ GoesOn(f)
                      => IsOnward(<<a, b, c, d, e, f>>)
<1>1. ASSUME NEW S, \A s \in S : GoesOn(s), NEW s \in Seq(S)
      PROVE  IsOnward(s)
  BY <1>1 DEF GoesOn, IsOnward, IsPlain, IsSequence
<1>2. <<a>> \in Seq({a})
  OBVIOUS
<1>3. \A b : <<a, b>> \in Seq({a, b})
  OBVIOUS
<1>4. \A b, c : <<a, b, c>> \in Seq({a, b, c})
  OBVIOUS
<1>5. \A b, c, d, e, f : <<a, b, c, d, e, f>> \in Seq({a, b, c, d, e, f})
  OBVIOUS
<1>6. IsOnward(<<a>>)
  BY <1>1, <1>2
<1>7. ASSUME NEW b, GoesOn(b) PROVE IsOnward(<<a, b>>)
  BY <1>1, <1>3, <1>7
<1>8. ASSUME NEW b, NEW c, GoesOn(b), GoesOn(c) PROVE IsOnward(<<a, b, c>>)
  BY <1>1, <1>4, <1>8
<1>9. ASSUME NEW b, NEW c, NEW d, NEW e, NEW f,
             GoesOn(b), GoesOn(c), GoesOn(d), GoesOn(e), GoesOn(f)
      PROVE  IsOnward(<<a, b, c, d, e, f>>)
  <2>1. \A s \in {a, b, c, d, e, f} : GoesOn(s)
    BY <1>9
  <2> QED
    BY <1>1, <1>5, <2>1
<1> QED
  BY <1>6, <1>7, <1>8, <1>9

\* The statements that are no checks, by the way they are written.
LEMMA Kinds ==
    ASSUME NEW v, NEW f, NEW args, f # "ADM_register_job"
    PROVE  /\ GoesOn(Set(v, f, args)) /\ GoesOn(Request(f, args, v))
           /\ GoesOn(Notice(f, args)) /\ GoesOn(Release(f, v))
           /\ GoesOn(Placeholder(f)) /\ GoesOn(Destroy(f, v))
BY DEF GoesOn, Set, Request, Notice, Release, Placeholder, Destroy, Statement

\* One of them alone.
LEMMA Alone ==
    ASSUME NEW v, NEW f, NEW args, f # "ADM_register_job"
    PROVE  /\ IsOnward(<<Set(v, f, args)>>) /\ IsOnward(<<Request(f, args, v)>>)
           /\ IsOnward(<<Notice(f, args)>>) /\ IsOnward(<<Release(f, v)>>)
           /\ IsOnward(<<Placeholder(f)>>) /\ IsOnward(<<Destroy(f, v)>>)
BY Kinds, Few

\* What the programs about storages begin and end with.
LEMMA AdhocParts ==
    /\ IsPlain(AdhocOpening) /\ IsPlain(AdhocClosing) /\ IsPlain(<<RemoveAdhoc>>)
    /\ IsPlain(PfsOpening) /\ IsPlain(PfsClosing)
<1>1. IsPlain(AdhocOpening)
  BY Creations, Alone, Closed DEF AdhocOpening, IsOnward
<1>2. IsPlain(PfsOpening)
  BY Creations, Alone, Closed DEF PfsOpening, IsOnward
<1>3. IsPlain(AdhocClosing) /\ IsPlain(PfsClosing)
  BY Kinds, Few DEF AdhocClosing, PfsClosing, IsOnward
<1>4. IsPlain(<<RemoveAdhoc>>)
  BY Alone DEF RemoveAdhoc, IsOnward
<1> QED
  BY <1>1, <1>2, <1>3, <1>4

\* The opening of the programs about jobs has no check, and registers the job.
LEMMA OpeningStaysOpen ==
    ASSUME NEW expected, IsOnward(expected), NEW early
    PROVE  StaysOpen(OpeningWith(expected, early))
<1>1. \A v : IsOnward(Nodes(v)) /\ IsOnward(Routes(v))
  BY Creations DEF Nodes, Routes
<1>2. IsOnward(JobResources)
  BY Creations DEF JobResources
<1>3. IsOnward(<<>>)
  BY <<>> \in Seq({}) DEF IsOnward, IsPlain, IsSequence
<1> DEFINE register == <<Request("ADM_register_job", <<"job_resources", "reqs">>, "job")>>
<1>4. StaysOpen(register)
  <2> DEFINE x == Request("ADM_register_job", <<"job_resources", "reqs">>, "job")
  <2>1. x.do # "check"
    BY DEF Request, Statement
  <2> HIDE DEF x
  <2>2. IsSequence(<<x>>) /\ Len(<<x>>) = 1 /\ <<x>>[1] = x
    BY Short
  <2>3. \A i \in 1 .. 1 : \A k \in i .. 1 : k = 1
    OBVIOUS
  <2>4. StaysOpen(<<x>>)
    BY <2>1, <2>2, <2>3 DEF StaysOpen
  <2> QED
    BY <2>4 DEF x
<1>5. \A s, t : IsOnward(s) /\ IsOnward(t) => IsOnward(s \o t)
  BY Closed DEF IsOnward
<1>6. \A s : IsOnward(s) => StaysOpen(s \o register)
  BY <1>4, PlainThenOpen DEF IsOnward
<1>7. IsOnward(<<Set("server", "ADM_server_create", <<>>)>>
               \o Nodes("job_nodes") \o Nodes("adhoc_nodes")
               \o Routes("inputs") \o Routes("outputs") \o expected
               \o (IF early THEN JobResources ELSE <<>>))
  BY <1>1, <1>2, <1>3, <1>5, Alone
<1> QED
  BY <1>2, <1>3, <1>5, <1>6, <1>7, Alone, Creations DEF OpeningWith

\* The cleanups of the programs about jobs remove the job.
LEMMA ClosingsRemove ==
    Removes(Closing) /\ Removes(Closing \o Unroute) /\ Removes(Unroute \o Closing)
<1> DEFINE x == Notice("ADM_remove_job", <<"job">>)
           y == Destroy("ADM_server_destroy", "server")
<1>1. x.op = "ADM_remove_job" /\ x.do = "notice" /\ GoesOn(x) /\ GoesOn(y)
  BY Kinds DEF Notice, Statement
<1>2. Closing = <<x, y>>
  BY DEF Closing
<1> HIDE DEF x, y
<1>3. IsOnward(Closing) /\ IsSequence(Closing) /\ Len(Closing) = 2 /\ Closing[1] = x
  BY <1>1, <1>2, Few, Short
<1>4. IsOnward(Unroute)
  BY Kinds, Few DEF Unroute
<1>5. ASSUME NEW s, IsOnward(s), NEW r \in 1 .. Len(s), s[r] = x
      PROVE  Removes(s)
  <2>1. \A k \in 1 .. r : s[k].do # "check"
    BY <1>5, Lengths DEF IsOnward, IsPlain
  <2> QED
    BY <1>1, <1>5, <2>1 DEF Removes, Removal, IsOnward
<1>6. ASSUME NEW u, Joins(Closing, Unroute, u) PROVE Len(u) \in Nat /\ Len(u) >= 2 /\ u[1] = x
  BY <1>3, <1>6 DEF Joins
<1>7. ASSUME NEW u, Joins(Unroute, Closing, u)
      PROVE  Len(Unroute) + 1 \in 1 .. Len(u) /\ u[Len(Unroute) + 1] = x
  BY <1>3, <1>7 DEF Joins
<1>8. Joins(Closing, Unroute, Closing \o Unroute) /\ Joins(Unroute, Closing, Unroute \o Closing)
  BY <1>3, <1>4, Elements DEF IsOnward, IsPlain
<1>9. IsOnward(Closing \o Unroute) /\ IsOnward(Unroute \o Closing)
  BY <1>3, <1>4, Closed DEF IsOnward
<1>10. 1 \in 1 .. Len(Closing) /\ 1 \in 1 .. Len(Closing \o Unroute)
  BY <1>3, <1>6, <1>8
<1> QED
  BY <1>3, <1>5, <1>6, <1>7, <1>8, <1>9, <1>10

\* A program that opens, goes on and cleans up.
LEMMA JobProgram ==
    ASSUME NEW early, NEW rest, IsOnward(rest), NEW cleanup, Removes(cleanup)
    PROVE  IsProgram(Program(Opening(early) \o rest, cleanup))
<1>1. StaysOpen(Opening(early))
  BY Creations, OpeningStaysOpen DEF Opening, Routes
<1> QED
  BY <1>1, OpenThenOnward, ProgramCleaningUp

\* The programs that open and clean up.
LEMMA JobPrograms ==
    /\ IsProgram(ADM_cancel_transfer) /\ IsProgram(ADM_connect_data_operation)
    /\ IsProgram(ADM_define_data_operation) /\ IsProgram(ADM_finalize_data_operation)
    /\ IsProgram(ADM_get_pending_transfers) /\ IsProgram(ADM_get_qos_constraints)
    /\ IsProgram(ADM_get_statistics) /\ IsProgram(ADM_get_transfer_priority)
    /\ IsProgram(ADM_link_transfer_to_data_operation)
    /\ IsProgram(ADM_set_dataset_information) /\ IsProgram(ADM_set_io_resources)
    /\ IsProgram(ADM_set_qos_constraints) /\ IsProgram(ADM_set_transfer_priority)
<1>1. GoesOn(Transfer)
  BY Kinds DEF Transfer
<1>2. \A f : f # "ADM_register_job" => GoesOn(Placeholder(f))
  BY Kinds
<1>3. \A early, s : GoesOn(s) => IsProgram(Program(Opening(early) \o <<s>>, Closing))
  BY Few, ClosingsRemove, JobProgram
<1>4. \A early, s, t : GoesOn(s) /\ GoesOn(t) =>
          /\ IsProgram(Program(Opening(early) \o <<s, t>>, Closing))
          /\ IsProgram(Program(Opening(early) \o <<s, t>>, Closing \o Unroute))
  BY Few, ClosingsRemove, JobProgram
<1>5. \A early, s, t, u : GoesOn(s) /\ GoesOn(t) /\ GoesOn(u) =>
          IsProgram(Program(Opening(early) \o <<s, t, u>>, Closing))
  BY Few, ClosingsRemove, JobProgram
<1>6. IsProgram(ADM_cancel_transfer)
  BY <1>1, <1>2, <1>4 DEF ADM_cancel_transfer
<1>7. /\ IsProgram(ADM_connect_data_operation) /\ IsProgram(ADM_define_data_operation)
      /\ IsProgram(ADM_get_pending_transfers) /\ IsProgram(ADM_get_qos_constraints)
      /\ IsProgram(ADM_get_statistics) /\ IsProgram(ADM_set_dataset_information)
      /\ IsProgram(ADM_set_io_resources) /\ IsProgram(ADM_set_qos_constraints)
  BY <1>2, <1>3
  DEF ADM_connect_data_operation, ADM_define_data_operation, ADM_get_pending_transfers,
      ADM_get_qos_constraints, ADM_get_statistics, ADM_set_dataset_information,
      ADM_set_io_resources, ADM_set_qos_constraints
<1>8. IsProgram(ADM_finalize_data_operation)
  BY <1>2, <1>4 DEF ADM_finalize_data_operation
<1>9. IsProgram(ADM_get_transfer_priority) /\ IsProgram(ADM_set_transfer_priority)
  BY <1>1, <1>2, <1>4 DEF ADM_get_transfer_priority, ADM_set_transfer_priority
<1>10. IsProgram(ADM_link_transfer_to_data_operation)
  BY <1>1, <1>2, <1>5 DEF ADM_link_transfer_to_data_operation
<1> QED
  BY <1>6, <1>7, <1>8, <1>9, <1>10

\* The programs about transfers of datasets and about updates.
LEMMA LongerJobPrograms ==
    IsProgram(ADM_transfer_datasets) /\ IsProgram(ADM_update_job)
<1>1. ASSUME NEW s, IsOnward(s), NEW t, IsOnward(t)
      PROVE  IsOnward(s \o t)
  BY <1>1, Closed DEF IsOnward
<1>2. IsProgram(ADM_transfer_datasets)
  <2> DEFINE sources == Asserted("sources", "prepare_datasets", <<>>)
             targets == Asserted("targets", "prepare_datasets", <<>>)
             limits  == Asserted("limits", "prepare_qos_limits", <<>>)
             request == <<Request("ADM_transfer_datasets",
                                  <<"job", "sources", "targets", "limits">>, "tx")>>
  <2>1. /\ IsOnward(sources) /\ IsOnward(targets) /\ IsOnward(limits)
        /\ IsOnward(request)
    BY Creations, Alone
  <2>2. StaysOpen(Opening(TRUE))
    BY Creations, OpeningStaysOpen DEF Opening, Routes
  <2> HIDE DEF sources, targets, limits, request
  <2>3. StaysOpen(Opening(TRUE) \o sources \o targets \o limits \o request)
    BY <2>1, <2>2, OpenThenOnward
  <2> QED
    BY <2>3, ClosingsRemove, ProgramCleaningUp
    DEF ADM_transfer_datasets, sources, targets, limits, request
<1>3. IsProgram(ADM_update_job)
  <2> DEFINE opening == OpeningWith(<<Set("expected_outputs", "prepare_routes", <<>>)>>, TRUE)
             rest == <<Set("new_job_resources", "ADM_job_resources_create", <<"new_job_nodes">>),
                       Asserts("job_resources"),
                       Request("ADM_update_job", <<"job", "new_job_resources">>, "none")>>
  <2>1. IsOnward(rest)
    <3>1. GoesOn(Asserts("job_resources"))
      BY DEF GoesOn, Asserts, Statement
    <3> QED
      BY <3>1, Kinds, Few
  <2>2. IsOnward(Nodes("new_job_nodes"))
    BY Creations DEF Nodes
  <2>3. StaysOpen(opening)
    BY Alone, OpeningStaysOpen
  <2> HIDE DEF opening, rest
  <2>4. StaysOpen(opening \o Nodes("new_job_nodes") \o rest)
    BY <2>1, <2>2, <2>3, OpenThenOnward
  <2> QED
    BY <2>4, ClosingsRemove, ProgramCleaningUp DEF ADM_update_job, opening, rest
<1> QED
  BY <1>2, <1>3

\* The program that removes the job as its last statement.
LEMMA RemoveJobProgram == IsProgram(ADM_remove_job)
<1> DEFINE x == Notice("ADM_remove_job", <<"job">>)
<1>1. x.op = "ADM_remove_job" /\ x.do = "notice" /\ GoesOn(x)
  BY Kinds DEF Notice, Statement
<1> HIDE DEF x
<1>2. IsOnward(<<x>>) /\ Len(<<x>>) = 1 /\ <<x>>[1] = x
  BY <1>1, Few, Short
<1>3. Removes(<<x>>)
  BY <1>1, <1>2 DEF Removes, Removal, IsOnward, IsPlain
<1>4. StaysOpen(Opening(TRUE))
  BY Creations, OpeningStaysOpen DEF Opening, Routes
<1>5. IsPlain(<<Destroy("ADM_server_destroy", "server")>>)
  BY Alone DEF IsOnward
<1> QED
  BY <1>3, <1>4, <1>5, OpenThenRemoves, ProgramRemoving DEF ADM_remove_job, x

\* The program that registers a job and removes it at once.
LEMMA RegisterJobProgram == IsProgram(ADM_register_job)
<1> DEFINE r == Request("ADM_register_job", <<"job_resources", "reqs">>, "job")
           x == Release("ADM_remove_job", "job")
           pre == AdhocOpening
                  \o Checked("job_nodes", "prepare_nodes", <<>>)
                  \o Checked("job_resources", "ADM_job_resources_create", <<"job_nodes">>)
                  \o Checked("inputs", "prepare_routes", <<>>)
                  \o Checked("outputs", "prepare_routes", <<>>)
                  \o Checked("expected_outputs", "prepare_routes", <<>>)
                  \o Checked("reqs", "ADM_job_requirements_create",
                             <<"inputs", "outputs", "expected_outputs", "adhoc_storage">>)
           cleanup == <<Destroy("ADM_server_destroy", "server"),
                        Destroy("ADM_job_requirements_destroy", "reqs")>>
                      \o Unroute
                      \o <<Destroy("ADM_job_resources_destroy", "job_resources"),
                           Destroy("destroy_nodes", "job_nodes")>>
                      \o AdhocClosing
<1>1. /\ r.do # "check" /\ x.op = "ADM_remove_job" /\ x.do = "notice"
      /\ RemoveAdhoc.op # "ADM_register_job"
  BY DEF Request, Release, Statement, RemoveAdhoc
<1>2. IsPlain(pre)
  BY AdhocParts, Creations, Closed
<1>3. IsPlain(cleanup)
  <2>1. IsPlain(Unroute)
    BY Kinds, Few DEF Unroute, IsOnward
  <2> QED
    BY <2>1, AdhocParts, Kinds, Few, Closed DEF IsOnward
<1>4. ADM_register_job = Program(pre \o <<r, x, RemoveAdhoc>>, cleanup)
  BY DEF ADM_register_job
<1> HIDE DEF r, x, pre, cleanup
<1> DEFINE b == <<r, x, RemoveAdhoc>>
<1>5. b \in Seq({r, x, RemoveAdhoc}) /\ Len(b) = 3 /\ b[1] = r /\ b[2] = x /\ b[3] = RemoveAdhoc
  OBVIOUS
<1> HIDE DEF b
<1>6. x.op # "ADM_register_job" /\ x.do # "check"
  BY <1>1
<1>7. Removal(b, 1, 2)
  BY <1>1, <1>5 DEF Removal
<1>8. \A i \in 1 .. 3 : b[i].op = "ADM_register_job" => i = 1
  BY <1>1, <1>5, <1>6
<1>9. IsBalanced(b)
  BY <1>5, <1>7, <1>8 DEF IsBalanced, IsSequence
<1> QED
  BY <1>2, <1>3, <1>4, <1>9, PlainThenBalanced, ProgramRemoving DEF b

\* The programs that register no job.
LEMMA StoragePrograms ==
    /\ IsProgram(ADM_register_adhoc_storage) /\ IsProgram(ADM_remove_adhoc_storage)
    /\ IsProgram(ADM_update_adhoc_storage) /\ IsProgram(ADM_deploy_adhoc_storage)
    /\ IsProgram(ADM_terminate_adhoc_storage) /\ IsProgram(ADM_register_pfs_storage)
    /\ IsProgram(ADM_remove_pfs_storage) /\ IsProgram(ADM_update_pfs_storage)
    /\ IsProgram(ADM_ping)
<1>1. IsPlain(<<>>)
  BY <<>> \in Seq({}) DEF IsPlain, IsSequence
<1>2. IsPlain(<<Destroy("ADM_server_destroy", "server")>> \o AdhocClosing)
  BY AdhocParts, Alone, Closed DEF IsOnward
<1>3. IsProgram(ADM_register_adhoc_storage)
  BY <1>2, AdhocParts, Closed, PlainProgram DEF ADM_register_adhoc_storage
<1>4. IsProgram(ADM_remove_adhoc_storage)
  BY <1>2, AdhocParts, Alone, Closed, PlainProgram DEF ADM_remove_adhoc_storage, IsOnward
<1>5. IsProgram(ADM_update_adhoc_storage)
  <2> DEFINE cleanup == <<Destroy("ADM_server_destroy", "server"),
                          Destroy("ADM_adhoc_context_destroy", "new_ctx"),
                          Destroy("ADM_adhoc_context_destroy", "ctx"),
                          Destroy("ADM_adhoc_resources_destroy", "adhoc_resources"),
                          Destroy("destroy_nodes", "new_adhoc_nodes"),
                          Destroy("destroy_nodes", "adhoc_nodes")>>
             rest == <<Request("ADM_update_adhoc_storage",
                               <<"adhoc_storage", "new_adhoc_resources">>, "none"), RemoveAdhoc>>
  <2>1. IsPlain(cleanup)
    BY Kinds, Few DEF IsOnward
  <2>2. IsPlain(rest)
    BY Kinds, Few DEF IsOnward, RemoveAdhoc
  <2> HIDE DEF cleanup, rest
  <2>3. IsPlain(AdhocOpening
                \o Checked("new_adhoc_nodes", "prepare_nodes", <<>>)
                \o Checked("new_ctx", "ADM_adhoc_context_create", <<>>)
                \o Checked("new_adhoc_resources", "ADM_adhoc_resources_create",
                           <<"new_adhoc_nodes">>)
                \o rest)
    BY <2>2, AdhocParts, Creations, Closed
  <2> QED
    BY <2>1, <2>3, PlainProgram DEF ADM_update_adhoc_storage, cleanup, rest
<1>6. ASSUME NEW more, IsPlain(more) PROVE IsProgram(Deployment(more))
  <2> DEFINE destruction == <<Destroy("free", "path"), Destroy("ADM_server_destroy", "server"),
                              Destroy("ADM_adhoc_context_destroy", "new_ctx")>>
             request == <<Request("ADM_deploy_adhoc_storage", <<"adhoc_storage">>, "path")>>
  <2>1. IsPlain(destruction) /\ IsPlain(request)
    BY Kinds, Few DEF IsOnward
  <2> HIDE DEF destruction, request
  <2>2. IsPlain(AdhocOpening \o Checked("new_ctx", "ADM_adhoc_context_create", <<>>)
                \o request \o more \o <<RemoveAdhoc>>)
    BY <1>6, <2>1, AdhocParts, Creations, Closed
  <2>3. IsPlain(destruction \o AdhocClosing)
    BY <2>1, AdhocParts, Closed
  <2> QED
    BY <2>2, <2>3, PlainProgram DEF Deployment, destruction, request
<1>7. IsProgram(ADM_deploy_adhoc_storage) /\ IsProgram(ADM_terminate_adhoc_storage)
  BY <1>1, <1>6, Alone DEF ADM_deploy_adhoc_storage, ADM_terminate_adhoc_storage, IsOnward
<1>8. IsProgram(ADM_register_pfs_storage) /\ IsProgram(ADM_remove_pfs_storage)
  BY AdhocParts, Alone, Closed, PlainProgram
  DEF ADM_register_pfs_storage, ADM_remove_pfs_storage, IsOnward
<1>9. IsProgram(ADM_update_pfs_storage)
  <2> DEFINE rest == <<Request("ADM_update_pfs_storage", <<"pfs_storage", "new_pfs_ctx">>, "none"),
                       Release("ADM_remove_pfs_storage", "pfs_storage")>>
  <2>1. IsPlain(rest)
    BY Kinds, Few DEF IsOnward
  <2> HIDE DEF rest
  <2>2. IsPlain(PfsOpening \o Checked("new_pfs_ctx", "ADM_pfs_context_create", <<>>) \o rest)
    BY <2>1, AdhocParts, Creations, Closed
  <2> QED
    BY <2>2, AdhocParts, PlainProgram DEF ADM_update_pfs_storage, rest
<1>10. IsProgram(ADM_ping)
  BY <1>1, Kinds, Few, PlainProgram DEF ADM_ping, IsOnward
<1> QED
  BY <1>3, <1>4, <1>5, <1>7, <1>8, <1>9, <1>10

\* Every program removes the job it registers.
LEMMA EveryProgram ==
    ASSUME NEW p \in Programs
    PROVE  IsProgram(Code[p])
<1>1. p \in DOMAIN Code
  BY ProgramsAreKnown
<1> QED
  BY <1>1, JobPrograms, LongerJobPrograms, RemoveJobProgram, RegisterJobProgram, StoragePrograms
  DEF Code

----------------------------------------------------------------------------
(* The job of a running program.                                           *)

\* As long as no request has failed, what comes next removes the job.
JobInv ==
    /\ IsProgram(program)
    /\ pc \in Nat \ {0}
    /\ "job" \in registered /\ failed = {} =>
          \E r \in pc .. Len(Statements) : Removal(Statements, pc, r)

\* A statement that is not the one that removes the job, and after which the
\* program goes on, leaves the removal to come.
LEMMA RemovalStays ==
    ASSUME NEW s, NEW i \in Nat, s[i].op # "ADM_remove_job" \/ s[i].do # "notice",
           NEW r \in i .. Len(s), Removal(s, i, r), Len(s) \in Nat
    PROVE  r \in i + 1 .. Len(s) /\ Removal(s, i + 1, r)
<1>1. r # i
  BY DEF Removal
<1> QED
  BY <1>1 DEF Removal

\* The steps that are no requests.
LEMMA OtherSteps ==
    ASSUME JobInv, SetVariable \/ AssertVariable \/ DestroyObject \/ CallPlaceholder
    PROVE  JobInv'
<1>1. /\ UNCHANGED <<program, registered, failed>>
      /\ pc' = pc + 1
      /\ Statements[pc].do # "notice"
  BY DEF SetVariable, AssertVariable, DestroyObject, CallPlaceholder, Runs, Now
<1>2. Len(Statements) \in Nat
  BY Lengths DEF JobInv, IsProgram, IsBalanced, Statements
<1> QED
  BY <1>1, <1>2, RemovalStays DEF JobInv, Statements

\* A check that sends the program to its cleanup: there is no job, since no
\* check stands before its removal.
LEMMA CheckStep ==
    ASSUME JobInv, CheckVariable
    PROVE  JobInv'
<1>1. /\ UNCHANGED <<program, registered, failed>>
      /\ pc' \in {Cleanup, pc + 1}
      /\ Statements[pc].do = "check"
  BY DEF CheckVariable, Runs, Now
<1>2. ~("job" \in registered /\ failed = {})
  <2>1. ASSUME NEW r \in pc .. Len(Statements), Removal(Statements, pc, r)
        PROVE  FALSE
    <3>1. pc \in pc .. r
      BY DEF JobInv
    <3> QED
      BY <1>1, <2>1, <3>1 DEF Removal
  <2> QED
    BY <2>1 DEF JobInv
<1> QED
  BY <1>1, <1>2 DEF JobInv, IsProgram, Cleanup

\* A request that is carried out.
LEMMA SuccessStep ==
    ASSUME JobInv, RequestSucceeds
    PROVE  JobInv'
<1>1. /\ Requests /\ UNCHANGED program
      /\ registered' = Kept(Now.op)
      /\ \/ pc' = pc + 1 /\ failed' = failed
         \/ pc' = AfterError /\ failed' = failed \cup {Now.op}
  BY DEF RequestSucceeds
<1>2. Len(Statements) \in Nat /\ pc \in 1 .. Len(Statements)
  BY <1>1, Lengths DEF JobInv, IsProgram, IsBalanced, Statements, Requests, Runs, Finished
<1>3. pc' \in Nat \ {0} /\ IsProgram(program)'
  BY <1>1 DEF AfterError, JobInv, IsProgram, Cleanup
<1>4. ASSUME "job" \in registered', failed' = {}
      PROVE  \E r \in pc + 1 .. Len(Statements) : Removal(Statements, pc + 1, r)
  <2>1. failed = {}
    BY <1>1, <1>4
  <2>2. CASE Now.op = "ADM_register_job"
    <3>1. PICK r \in pc + 1 .. Len(Statements) : Removal(Statements, pc, r)
      BY <1>2, <2>2 DEF JobInv, IsProgram, IsBalanced, Now, Statements
    <3> QED
      BY <1>2, <3>1 DEF Removal
  <2>3. CASE Now.op # "ADM_register_job"
    <3>1. "job" \in registered /\ Now.op # "ADM_remove_job"
      BY <1>1, <1>4, <2>3 DEF Kept
    <3> QED
      BY <1>2, <2>1, <3>1, RemovalStays DEF JobInv, Now
  <2> QED
    BY <2>2, <2>3
<1>5. failed' = {} => pc' = pc + 1
  BY <1>1
<1> QED
  BY <1>1, <1>3, <1>4, <1>5 DEF JobInv, Statements

\* A request that fails, or faults.
LEMMA FailureStep ==
    ASSUME JobInv, RequestFails \/ RequestFaults
    PROVE  JobInv'
<1>1. CASE RequestFails
  <2>1. UNCHANGED program /\ failed' # {} /\ pc' \in {Cleanup, pc + 1}
    BY <1>1 DEF RequestFails, AfterError
  <2> QED
    BY <2>1 DEF JobInv, IsProgram, Cleanup
<1>2. CASE RequestFaults
  BY <1>2 DEF RequestFaults, JobInv, Statements
<1> QED
  BY <1>1, <1>2

\* Whatever the lengths of the arrays and whichever allocation fails, as long
\* as no request failed the job of a program is removed by a statement that it
\* reaches.
THEOREM JobIsRemoved == Spec => []JobInv
<1>1. Init => JobInv
  BY EveryProgram DEF Init, JobInv
<1>2. JobInv /\ [Next]_vars => JobInv'
  <2> SUFFICES ASSUME JobInv, [Next]_vars PROVE JobInv'
    OBVIOUS
  <2>1. CASE SetVariable \/ AssertVariable \/ DestroyObject \/ CallPlaceholder
    BY <2>1, OtherSteps
  <2>2. CASE CheckVariable
    BY <2>2, CheckStep
  <2>3. CASE RequestSucceeds
    BY <2>3, SuccessStep
  <2>4. CASE RequestFails \/ RequestFaults
    BY <2>4, FailureStep
  <2>5. CASE UNCHANGED vars
    BY <2>5 DEF vars, JobInv, Statements
  <2> QED
    BY <2>1, <2>2, <2>3, <2>4, <2>5 DEF Next
<1> QED
  BY <1>1, <1>2, PTL DEF Spec

\* A program that ends leaves no job behind on the server, unless a request
\* failed.
THEOREM NoJobIsLeftBehind == Spec => []NoJobLeftBehind
<1>1. JobInv => NoJobLeftBehind
  <2> SUFFICES ASSUME JobInv, Finished, failed = {}, "job" \in registered PROVE FALSE
    BY DEF NoJobLeftBehind
  <2>1. Len(Statements) \in Nat
    BY Lengths DEF JobInv, IsProgram, IsBalanced, Statements
  <2> QED
    BY <2>1 DEF JobInv, Finished
<1> QED
  BY <1>1, JobIsRemoved, PTL
============================================================================
