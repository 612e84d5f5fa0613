---------------------------- MODULE ClientTypes ----------------------------
(***************************************************************************)
(* The C objects of scord's client library: src/lib/types.c, which creates, *)
(* copies and destroys them, and the conversions of src/lib/types.cpp that   *)
(* read them before a request and create them from its answer.               *)
(*                                                                           *)
(* A function of the library takes the memory of the program and returns the *)
(* memory it leaves, with the function's result in the field ret. A struct   *)
(* is a block whose contents are its pointers, by field; an array of structs *)
(* is one block with the pointers of its elements in order, and a single     *)
(* node, dataset or route is an array of one. Numbers and the text of        *)
(* strings are left out.                                                     *)
(***************************************************************************)
EXTENDS Integers, SequencesExt

Null == 0
\* A pointer that was never assigned, and one to a string that is no block.
Wild   == -1
Static == -2

Faults == {"ok", "null", "wild", "freed", "overrun", "assert"}

\* left is the number of the allocation that fails, counting from the next one:
\* none does when it is 0, and one has when it is -1. debug tells whether
\* assert() does anything. fate is the first thing the program did that it must
\* not do.
Fresh(left, debug) ==
    [at |-> <<>>, kind |-> <<>>, freed |-> {}, left |-> left, debug |-> debug,
     fate |-> "ok", ret |-> Null]

Ok(h)      == h.fate = "ok"
Starved(h) == h.left = -1
Live(h)    == (1 .. Len(h.at)) \ h.freed

Returns(h, p) == [h EXCEPT !.ret = p]
Fault(h, f)   == IF Ok(h) THEN [h EXCEPT !.fate = f] ELSE h

\* Reads or writes what p points to.
Touch(h, p) ==
    IF p \in Live(h) \cup {Static} THEN h
    ELSE Fault(h, CASE p = Null -> "null" [] p = Wild -> "wild" [] OTHER -> "freed")

Field(h, p, f) == IF p \in Live(h) /\ f \in DOMAIN h.at[p] THEN h.at[p][f] ELSE Wild
Length(h, p)   == IF p \in Live(h) THEN Len(h.at[p]) ELSE 0

\* p->f = the value just returned; the function goes on with p.
Assign(h, p, f) == IF Ok(h) THEN [h EXCEPT !.at[p][f] = h.ret, !.ret = p] ELSE h

malloc(h, kind, contents) ==
    CASE ~Ok(h)      -> Returns(h, Null)
      [] h.left = 1  -> [h EXCEPT !.left = -1, !.ret = Null]
      [] OTHER       -> [h EXCEPT !.left = IF @ > 0 THEN @ - 1 ELSE @,
                                  !.at = Append(@, contents),
                                  !.kind = Append(@, kind),
                                  !.ret = Len(h.at) + 1]

free(h, p) ==
    LET t == Touch(h, p)
    IN  CASE p = Null            -> h
          [] p # Null /\ ~Ok(t)  -> t
          [] OTHER               -> [t EXCEPT !.freed = @ \cup {p}]

\* assert(p): in a debug build.
assert(h, p) == IF h.debug /\ p = Null THEN Fault(h, "assert") ELSE h

\* for(i = 0; i < n; ++i), until an iteration returns NULL.
Each(step(_, _), h, n) ==
    FoldLeft(LAMBDA m, i : IF Ok(m) /\ m.ret # Null THEN step(m, i) ELSE m,
             h, [i \in 1 .. n |-> i])

\* The library copies a string with calloc(), whose result it does not check,
\* and strcpy().
strdup(h, src, kind) ==
    IF src = Null THEN Returns(h, Null)
    ELSE LET s == malloc(Touch(h, src), kind, <<>>) IN Touch(s, s.ret)

----------------------------------------------------------------------------
(* Servers, nodes and lists of nodes. *)

ADM_server_create(h) == malloc(h, "server", <<>>)
ADM_server_destroy(h, server) == free(h, server)

ADM_node_create(h) ==
    LET p == malloc(h, "node", <<Wild>>)
    IN  IF p.ret = Null THEN p ELSE Assign(strdup(p, Static, "hostname"), p.ret, 1)

\* Mutant of ADM_node_copy: the hostname is not duplicated.
ADM_node_copy_shallow(h, dst, i, src) ==
    IF src = Null THEN Returns(h, Null)
    ELSE LET t == Touch(h, src)
         IN  Assign(Returns(t, Field(t, src, 1)), dst, i)

\* Into element i of the array dst.
ADM_node_copy(h, dst, i, src) ==
    IF src = Null THEN Returns(h, Null)
    ELSE LET t == Touch(h, src)
         IN  Assign(strdup(t, Field(t, src, 1), "hostname"), dst, i)

ADM_node_destroy(h, node) ==
    IF node = Null THEN h
    ELSE LET t == Touch(h, node) IN free(free(t, Field(t, node, 1)), node)

\* A list has its own copy of the n elements, each of width pointers. What the
\* elements copied so far point to stays behind when a later one is NULL.
list_create(h, kind, width, copy(_, _, _, _), elements, n) ==
    LET p == malloc(h, kind, <<Wild>>)
        a == malloc(p, kind, [i \in 1 .. n * width |-> Null])
        c == Each(LAMBDA m, i : copy(m, a.ret, i, Field(m, elements, i)),
                  Touch(a, elements), n)
    IN  CASE p.ret = Null -> p
          [] p.ret # Null /\ a.ret = Null -> Returns(free(a, p.ret), Null)
          [] p.ret # Null /\ a.ret # Null /\ c.ret = Null ->
                 Returns(free(free(c, a.ret), p.ret), Null)
          [] OTHER -> Assign(Returns(c, a.ret), p.ret, 1)

ADM_node_list_create(h, nodes, n) ==
    list_create(h, "node_list", 1, ADM_node_copy, nodes, n)

\* Mutant of ADM_node_list_destroy: the hostnames are not freed.
ADM_node_list_destroy_shallow(h, list) ==
    LET t == Touch(h, list)
    IN  IF list = Null THEN h ELSE free(free(t, Field(t, list, 1)), list)

ADM_node_list_destroy(h, list) ==
    LET t == Touch(h, list)
        a == Field(t, list, 1)
        s == Each(LAMBDA m, i : free(m, Field(m, a, i)), Returns(t, a), Length(t, a))
    IN  IF list = Null THEN h ELSE free(free(s, a), list)

----------------------------------------------------------------------------
(* Datasets, routes and lists of routes. *)

ADM_dataset_create(h, id) ==
    LET p == malloc(h, "dataset", <<Null>>)
    IN  IF p.ret = Null THEN p ELSE Assign(strdup(p, id, "dataset_id"), p.ret, 1)

ADM_dataset_destroy(h, dataset) ==
    IF dataset = Null THEN h
    ELSE LET t == Touch(h, dataset) IN free(free(t, Field(t, dataset, 1)), dataset)

\* A new dataset with the id of dataset d, as field f of p. p is lost to the
\* caller of route_create when the allocation fails.
duplicate(h, d, p, f) ==
    LET t == Touch(h, d) IN Assign(ADM_dataset_create(t, Field(t, d, 1)), p, f)

ADM_dataset_route_create(h, source, destination) ==
    LET p == malloc(h, "route", <<Wild, Wild>>)
        s == duplicate(p, source, p.ret, 1)
        d == duplicate(s, destination, p.ret, 2)
    IN  CASE p.ret = Null -> p
          [] p.ret # Null /\ Field(s, p.ret, 1) = Null -> Returns(s, Null)
          [] p.ret # Null /\ Field(s, p.ret, 1) # Null
                          /\ Field(d, p.ret, 2) = Null -> Returns(d, Null)
          [] OTHER -> d

\* Into element i of the array dst. A dataset that cannot be allocated leaves
\* a NULL in the copy.
ADM_dataset_route_copy(h, dst, i, src) ==
    LET t == Touch(h, src)
        one(m, d, f) == IF d = Null THEN Assign(Returns(m, Null), dst, f)
                                    ELSE duplicate(m, d, dst, f)
    IN  IF src = Null THEN Returns(h, Null)
        ELSE one(one(t, Field(t, src, 1), 2 * i - 1), Field(t, src, 2), 2 * i)

\* Mutant of ADM_dataset_route_destroy: the route frees itself, which a comment
\* in the code warns of. The first route of a list is at its array's address.
ADM_dataset_route_destroy_freeing(h, route, i) ==
    IF route = Null THEN h
    ELSE LET t == Touch(h, route)
         IN  free(ADM_dataset_destroy(ADM_dataset_destroy(t, Field(t, route, 2 * i - 1)),
                                      Field(t, route, 2 * i)), route)

\* Element i of an array; the route itself is not freed.
ADM_dataset_route_destroy(h, route, i) ==
    IF route = Null THEN h
    ELSE LET t == Touch(h, route)
         IN  ADM_dataset_destroy(ADM_dataset_destroy(t, Field(t, route, 2 * i - 1)),
                                 Field(t, route, 2 * i))

ADM_dataset_route_list_create(h, routes, n) ==
    list_create(h, "route_list", 2, ADM_dataset_route_copy, routes, n)

ADM_dataset_route_list_destroy(h, list) ==
    LET t == Touch(h, list)
        a == Field(t, list, 1)
        s == Each(LAMBDA m, i : ADM_dataset_route_destroy(m, a, i),
                  Returns(t, a), Length(t, a) \div 2)
    IN  IF list = Null THEN h ELSE free(free(s, a), list)

----------------------------------------------------------------------------
(* Contexts, resources and storages. *)

ADM_adhoc_context_create(h) ==
    LET p == malloc(h, "context", [c_ctl_address |-> Wild, c_stager_address |-> Wild])
        a == Assign(strdup(p, Static, "address"), p.ret, "c_ctl_address")
    IN  IF p.ret = Null THEN p
        ELSE Assign(strdup(a, Static, "address"), p.ret, "c_stager_address")

ADM_adhoc_context_destroy(h, ctx) == free(h, ctx)

ADM_pfs_context_create(h) ==
    LET p == malloc(h, "context", [c_mount |-> Wild])
    IN  IF p.ret = Null THEN p ELSE Assign(strdup(p, Static, "mount"), p.ret, "c_mount")

ADM_pfs_context_destroy(h, ctx) == free(h, ctx)

ADM_adhoc_resources_destroy(h, res) ==
    IF res = Null THEN h
    ELSE LET t == Touch(h, res)
         IN  free(ADM_node_list_destroy(t, Field(t, res, "r_nodes")), res)

\* When the list cannot be created the new struct, whose r_nodes was never
\* assigned, is destroyed.
ADM_adhoc_resources_create(h, nodes, n) ==
    LET p == malloc(h, "resources", [r_nodes |-> Wild])
        l == ADM_node_list_create(p, nodes, n)
    IN  CASE p.ret = Null -> p
          [] p.ret # Null /\ l.ret = Null ->
                 Returns(ADM_adhoc_resources_destroy(l, p.ret), Null)
          [] OTHER -> Assign(l, p.ret, "r_nodes")

ADM_job_resources_destroy(h, res) == ADM_adhoc_resources_destroy(h, res)
ADM_job_resources_create(h, nodes, n) == ADM_adhoc_resources_create(h, nodes, n)

ADM_adhoc_storage_destroy(h, st) ==
    IF st = Null THEN h
    ELSE LET t == Touch(h, st)
         IN  free(free(free(t, Field(t, st, "s_name")), Field(t, st, "s_ctx")), st)

\* The context is copied with memcpy(): the copy has the strings of the
\* original. The resources are the caller's. The last branch of the error path
\* asserts that the destruction failed.
ADM_adhoc_storage_create(h, name, ctx, resources) ==
    LET p == malloc(h, "storage", [s_name |-> Wild, s_ctx |-> Wild, s_resources |-> Wild])
        n == Assign(strdup(p, name, "storage_name"), p.ret, "s_name")
        t == Touch(n, ctx)
        c == malloc(t, "context_copy", IF ctx \in Live(t) THEN t.at[ctx] ELSE <<>>)
        x == Assign(c, p.ret, "s_ctx")
    IN  CASE p.ret = Null -> p
          [] p.ret # Null /\ Null \in {name, ctx} -> Returns(p, Null)
          [] p.ret # Null /\ Null \notin {name, ctx} /\ c.ret = Null ->
                 Returns(assert(ADM_adhoc_storage_destroy(x, p.ret), Null), Null)
          [] OTHER -> Assign(Returns(x, resources), p.ret, "s_resources")

ADM_pfs_storage_create(h, name, ctx) == ADM_adhoc_storage_create(h, name, ctx, Null)

----------------------------------------------------------------------------
(* Requirements, jobs, transfers and limits. *)

ADM_job_requirements_destroy(h, reqs) ==
    IF reqs = Null THEN h
    ELSE LET t == Touch(h, reqs)
             i == ADM_dataset_route_list_destroy(t, Field(t, reqs, "r_inputs"))
             o == ADM_dataset_route_list_destroy(i, Field(t, reqs, "r_outputs"))
             e == ADM_dataset_route_list_destroy(o, Field(t, reqs, "r_expected_outputs"))
             a == ADM_adhoc_storage_destroy(e, Field(t, reqs, "r_adhoc_storage"))
         IN  free(a, reqs)

\* inputs, outputs and expected_outputs are pairs of an array and its length.
\* The lists become fields when all three exist: a failure leaves the earlier
\* ones behind. The copy of the storage is not checked. The types of storages
\* are left out: the programs register none but GekkoFS, so the error for an
\* unknown type (types.c:1011-1017), which undoes everything, is not
\* reached.
ADM_job_requirements_create(h, inputs, outputs, expected_outputs, adhoc_storage) ==
    LET p == malloc(h, "requirements", [r_inputs |-> Null, r_outputs |-> Null,
                        r_expected_outputs |-> Null, r_adhoc_storage |-> Null])
        i == ADM_dataset_route_list_create(p, inputs[1], inputs[2])
        o == ADM_dataset_route_list_create(i, outputs[1], outputs[2])
        e == ADM_dataset_route_list_create(o, expected_outputs[1], expected_outputs[2])
        l == Assign(Returns(Assign(Returns(Assign(e, p.ret, "r_expected_outputs"),
                 i.ret), p.ret, "r_inputs"), o.ret), p.ret, "r_outputs")
        t == Touch(l, adhoc_storage)
        s == ADM_adhoc_storage_create(t, Field(t, adhoc_storage, "s_name"),
                 Field(t, adhoc_storage, "s_ctx"), Field(t, adhoc_storage, "s_resources"))
        undone(m) == Returns(ADM_job_requirements_destroy(m, p.ret), Null)
    IN  CASE p.ret = Null -> p
          [] p.ret # Null /\ i.ret = Null -> undone(i)
          [] p.ret # Null /\ i.ret # Null /\ o.ret = Null -> undone(o)
          [] p.ret # Null /\ i.ret # Null /\ o.ret # Null /\ e.ret = Null -> undone(e)
          [] OTHER -> IF adhoc_storage = Null THEN l ELSE Assign(s, p.ret, "r_adhoc_storage")

ADM_job_create(h) == malloc(h, "job", <<>>)
ADM_transfer_create(h) == malloc(h, "transfer", <<>>)

\* The programs pass no entity.
ADM_qos_limit_create(h) == malloc(h, "limit", [l_entity |-> Null])

----------------------------------------------------------------------------
(* What a request reads: the constructors of the C++ types. *)

\* The hostnames of resources, the addresses of a context and the name of a
\* storage, the id of a dataset: every pointer on the way is dereferenced.
read_resources(h, res) ==
    LET t == Touch(h, res)
        l == Field(t, res, "r_nodes")
        s == Touch(assert(t, l), l)
        a == Field(s, l, 1)
    IN  FoldLeft(LAMBDA m, i : Touch(m, Field(s, a, i)), Touch(s, a),
                 [i \in 1 .. Length(s, a) |-> i])

read_context(h, ctx) ==
    LET t == Touch(h, ctx)
    IN  IF Ok(t) THEN FoldSet(LAMBDA f, m : Touch(m, t.at[ctx][f]), t, DOMAIN t.at[ctx])
        ELSE t

read_adhoc_storage(h, st) ==
    LET t == Touch(h, st)
    IN  read_resources(read_context(Touch(t, Field(t, st, "s_name")),
                                    Field(t, st, "s_ctx")), Field(t, st, "s_resources"))

read_pfs_storage(h, st) ==
    LET t == Touch(h, st)
    IN  read_context(Touch(t, Field(t, st, "s_name")), Field(t, st, "s_ctx"))

read_dataset(h, d) == LET t == Touch(h, d) IN Touch(t, Field(t, d, 1))

\* n routes from the array a.
read_routes(h, a, n) ==
    FoldLeft(LAMBDA m, i : IF i > Length(m, a) THEN Fault(m, "overrun")
                           ELSE read_dataset(m, Field(m, a, i)),
             Touch(h, a), [i \in 1 .. 2 * n |-> i])

\* The outputs are read from the array of the inputs.
read_requirements(h, reqs) ==
    LET t == Touch(h, reqs)
        array(f) == LET l == Field(t, reqs, f) IN Field(Touch(t, l), l, 1)
        count(f) == Length(t, array(f)) \div 2
        i == read_routes(t, array("r_inputs"), count("r_inputs"))
        o == read_routes(i, array("r_inputs"), count("r_outputs"))
        e == read_routes(o, array("r_expected_outputs"), count("r_expected_outputs"))
        st == Field(t, reqs, "r_adhoc_storage")
    IN  IF st = Null THEN e ELSE read_adhoc_storage(e, st)

(* What an answer creates: the conversions to the C types. *)

\* The temporary nodes are never destroyed.
to_adhoc_resources(h, n) ==
    LET tmp == FoldLeft(LAMBDA m, i : LET c == ADM_node_create(m.h)
                                      IN  [h |-> c, p |-> Append(m.p, c.ret)],
                        [h |-> h, p |-> <<>>], [i \in 1 .. n |-> i])
        v == malloc([tmp.h EXCEPT !.left = 0], "vector", tmp.p)
        r == ADM_adhoc_resources_create([v EXCEPT !.left = tmp.h.left], v.ret, n)
    IN  IF Ok(r) THEN Returns(free(r, v.ret), r.ret) ELSE r

\* The temporary context is never destroyed, its strings live on in the copy.
to_adhoc_storage(h, n) ==
    LET c == ADM_adhoc_context_create(h)
        r == to_adhoc_resources(c, n)
    IN  ADM_adhoc_storage_create(r, Static, c.ret, r.ret)

to_pfs_storage(h) ==
    LET c == ADM_pfs_context_create(h) IN ADM_pfs_storage_create(c, Static, c.ret)
============================================================================
