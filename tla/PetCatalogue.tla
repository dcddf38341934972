---------------------------- MODULE PetCatalogue ----------------------------
(***************************************************************************)
(* The petstore as it was written first (petstore/store.ts), and as it     *)
(* still runs where there is no Go binary: a catalogue of pets that can be *)
(* paged in the order they came, as a whole and by status, because a Map   *)
(* and a Set iterate in that order.  A new pet goes to the end and may     *)
(* push out the oldest pet that was not there at boot; a pet that changes  *)
(* status goes to the end of its new status.  The petstore in Go           *)
(* (PetStore) promises the same with other means.                          *)
(***************************************************************************)
EXTENDS IdSeqs, FiniteSets, SequencesExt, Functions

CONSTANTS Ids, Statuses, Seeds, SeedStatus(_), Capacity

VARIABLES status, listed    \* each pet's status; the pages, under a status or "all"
vars == <<status, listed>>

Keys == Statuses \cup {"all"}
Present == DOMAIN status
BootOrder == [i \in 1..Cardinality(Seeds) |-> i]

Init ==
  /\ status = [id \in Seeds |-> SeedStatus(id)]
  /\ listed = [k \in Keys |-> Kept(BootOrder, {id \in Seeds : k \in {"all", SeedStatus(id)}})]

\* the pages without the pets of D, and with pet id under status st
Without(D) == [k \in Keys |-> Kept(listed[k], Ids \ D)]
Added(id, st) == [k \in Keys |-> IF k \in {"all", st} THEN Append(listed[k], id) ELSE listed[k]]

Create(id, st) ==
  LET all == Present \cup {id}
      D == IF Cardinality(all) > Capacity THEN {Min(all \ Seeds)} ELSE {}
  IN /\ \A other \in Present : other < id
     /\ status' = [p \in all \ D |-> IF p = id THEN st ELSE status[p]]
     /\ listed' = [k \in Keys |-> Kept(Added(id, st)[k], Ids \ D)]

Update(id, st) ==
  /\ id \in Present /\ st # status[id]
  /\ status' = [status EXCEPT ![id] = st]
  /\ listed' = [listed EXCEPT ![status[id]] = Kept(@, Ids \ {id}),
                              ![st] = Append(@, id)]

Delete(id) ==
  /\ id \in Present
  /\ status' = Restrict(status, Present \ {id})
  /\ listed' = Without({id})

\* One page, and how many pets there are in all.
List(k, page, size) ==
  LET ids == listed[k] IN
  [items |-> SubSeq(ids, page * size + 1, Min({(page + 1) * size, Len(ids)})), total |-> Len(ids)]

Next == \E id \in Ids : Delete(id) \/ \E st \in Statuses : Create(id, st) \/ Update(id, st)

Spec == Init /\ [][Next]_vars
=============================================================================
