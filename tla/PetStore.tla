------------------------------ MODULE PetStore ------------------------------
(***************************************************************************)
(* The petstore's bounded store (internal/sut/store.go).  A pet is its id  *)
(* and its status; the other fields are not looked at.  Pages come from    *)
(* idLists: insertion-ordered slices in which a deletion leaves a 0 behind *)
(* and which are compacted when more than half of them is 0.               *)
(*                                                                         *)
(* Every method holds the store's lock throughout, so a method is one      *)
(* action.  An order is its id.                                            *)
(***************************************************************************)
EXTENDS IdSeqs, FiniteSets, SequencesExt, Functions

CONSTANTS
  SeedCount, Capacity,    \* NewPetStore's arguments
  Statuses,               \* PetStatuses
  SeedStatus(_),          \* the status of each pet made at boot
  MaxPetId, MaxOrderId    \* bounds on the ids a behaviour hands out

ASSUME PetStoreAssumption ==
  /\ SeedCount \in Nat /\ Capacity \in Nat /\ MaxPetId \in Nat /\ MaxOrderId \in Nat
  /\ SeedCount <= MaxPetId /\ \A id \in 1..SeedCount : SeedStatus(id) \in Statuses
  /\ "all" \notin Statuses

VARIABLES
  pets,               \* each pet's status
  lists,              \* s.byStatus, and s.all under "all"
  generated,          \* ids of the pets made by requests, oldest first
  nextPetID, nextOrder,
  orders, orderFIFO   \* the orders; their ids, oldest first

petVars   == <<pets, lists, generated, nextPetID>>
orderVars == <<nextOrder, orders, orderFIFO>>
vars == <<petVars, orderVars>>

Seeds == 1..SeedCount
Keys  == Statuses \cup {"all"}

(* NewPetStore makes room for one generated pet at least.                   *)
capacity  == IF Capacity < SeedCount + 1 THEN SeedCount + 1 ELSE Capacity
maxOrders == capacity

-----------------------------------------------------------------------------
(* idList                                                                   *)
newIDList == [order |-> <<>>, pos |-> [i \in {} |-> 0], dead |-> 0]

add(l, id) ==
  IF id \in DOMAIN l.pos THEN l
  ELSE [l EXCEPT !.order = Append(@, id),
                 !.pos = [i \in DOMAIN @ \cup {id} |-> IF i = id THEN Len(l.order) + 1 ELSE @[i]]]

Live(l) == Kept(l.order, Nat \ {0})

compact(l) ==
  LET kept == Live(l)
  IN [order |-> kept, pos |-> [id \in Range(kept) |-> CHOOSE i \in DOMAIN kept : kept[i] = id], dead |-> 0]

remove(l, id) ==
  IF id \notin DOMAIN l.pos THEN l
  ELSE LET marked == [order |-> [l.order EXCEPT ![l.pos[id]] = 0],
                      pos   |-> Restrict(l.pos, DOMAIN l.pos \ {id}),
                      dead  |-> l.dead + 1]
       IN IF marked.dead > Len(marked.order) \div 2 THEN compact(marked) ELSE marked

-----------------------------------------------------------------------------
\* insert, and removeLocked, on the lists of a store whose pets are p
inserted(ls, id, st) == [k \in Keys |-> IF k \in {"all", st} THEN add(ls[k], id) ELSE ls[k]]

\* mutant: the status list is forgotten
removedFromAll(ls, id, st) == [ls EXCEPT !["all"] = remove(@, id)]
removed(ls, id, st) == [k \in Keys |-> IF k \in {"all", st} THEN remove(ls[k], id) ELSE ls[k]]

Boot[n \in 0..SeedCount] ==
  IF n = 0 THEN [k \in Keys |-> newIDList] ELSE inserted(Boot[n - 1], n, SeedStatus(n))

Init ==
  /\ pets = [id \in Seeds |-> SeedStatus(id)] /\ lists = Boot[SeedCount]
  /\ generated = <<>> /\ nextPetID = SeedCount + 1
  /\ nextOrder = 1 /\ orders = {} /\ orderFIFO = <<>>

(* The pet that a full store gives up.  The store holds capacity pets at    *)
(* most when Create begins, so its loop runs once at most.                  *)
Victims(p, g) == IF Cardinality(DOMAIN p) > capacity /\ g # <<>> THEN {Head(g)} ELSE {}

Create(st) ==
  /\ nextPetID <= MaxPetId /\ nextPetID' = nextPetID + 1
  /\ LET id == nextPetID
         p  == [i \in DOMAIN pets \cup {id} |-> IF i = id THEN st ELSE pets[i]]
         ls == inserted(lists, id, st)
         g  == Append(generated, id)
         out == Victims(p, g)
     IN /\ pets' = Restrict(p, DOMAIN p \ out)
        /\ generated' = IF out = {} THEN g ELSE Tail(g)
        /\ lists' = IF out = {} THEN ls ELSE LET v == CHOOSE v \in out : TRUE IN removed(ls, v, p[v])
  /\ UNCHANGED orderVars

(* An update that changes the status; any other leaves what is modelled.    *)
Update(id, st) ==
  /\ id \in DOMAIN pets /\ st # pets[id]
  /\ pets' = [pets EXCEPT ![id] = st]
  /\ lists' = [lists EXCEPT ![pets[id]] = remove(@, id), ![st] = add(@, id)]
  /\ UNCHANGED <<generated, nextPetID, orderVars>>

\* mutant: generated keeps the id
DeleteKeepingGenerated(id) ==
  /\ id \in DOMAIN pets
  /\ pets' = Restrict(pets, DOMAIN pets \ {id}) /\ lists' = removed(lists, id, pets[id])
  /\ UNCHANGED <<generated, nextPetID, orderVars>>

Delete(id) ==
  /\ id \in DOMAIN pets
  /\ pets' = Restrict(pets, DOMAIN pets \ {id}) /\ lists' = removed(lists, id, pets[id])
  /\ generated' = IF \E i \in DOMAIN generated : generated[i] = id
                   THEN RemoveAt(generated, CHOOSE i \in DOMAIN generated : generated[i] = id)
                   ELSE generated
  /\ UNCHANGED <<nextPetID, orderVars>>

PlaceOrder ==
  /\ nextOrder <= MaxOrderId /\ nextOrder' = nextOrder + 1
  /\ LET fifo == Append(orderFIFO, nextOrder)
         all == orders \cup {nextOrder}
     IN IF Cardinality(all) > maxOrders
        THEN orders' = all \ {Head(fifo)} /\ orderFIFO' = Tail(fifo)
        ELSE orders' = all /\ orderFIFO' = fifo
  /\ UNCHANGED petVars

Next ==
  \/ \E st \in Statuses : Create(st) \/ \E id \in DOMAIN pets : Update(id, st)
  \/ \E id \in DOMAIN pets : Delete(id)
  \/ PlaceOrder

Spec == Init /\ [][Next]_vars

\* mutant: a 0 counts as a place in the page
SliceWithHoles(l, start, size) ==
  Kept(SubSeq(l.order, start + 1, IF start + size < Len(l.order) THEN start + size ELSE Len(l.order)),
       Nat \ {0})

slice(l, start, size) ==
  SubSeq(Live(l), start + 1, IF start + size < Len(Live(l)) THEN start + size ELSE Len(Live(l)))

(* One page, and how many pets there are in all.                            *)
List(st, page, size) ==
  LET l == lists[st]
      total == Cardinality(DOMAIN l.pos)
  IN [items |-> IF page * size < total
                THEN Kept(slice(l, page * size, size), DOMAIN pets) ELSE <<>>,
      total |-> total]

-----------------------------------------------------------------------------
IdList(l) ==
  /\ l.order \in Seq(0..MaxPetId) /\ DOMAIN l.pos = Range(l.order) \ {0}
  /\ \A id \in DOMAIN l.pos : l.pos[id] \in DOMAIN l.order /\ l.order[l.pos[id]] = id
  /\ l.dead = Cardinality({i \in DOMAIN l.order : l.order[i] = 0})
  /\ l.dead <= Len(l.order) \div 2

(* Every list is a list: a position for each id it holds, each id once, and *)
(* no more zeros than live ids.                                             *)
TypeOK ==
  /\ DOMAIN pets \subseteq 1..MaxPetId /\ \A id \in DOMAIN pets : pets[id] \in Statuses
  /\ DOMAIN lists = Keys /\ \A k \in Keys : IdList(lists[k]) /\ IsInjective(Live(lists[k]))
  /\ generated \in Seq(1..MaxPetId) /\ nextPetID \in 1..MaxPetId + 1
  /\ nextOrder \in 1..MaxOrderId + 1 /\ orders \subseteq 1..MaxOrderId

(* The store never grows past its capacity, and a request's pets are queued *)
(* for eviction in the order they came, none twice and none missing.        *)
(* (store.go, Create, Delete.)                                              *)
Bounded ==
  /\ Cardinality(DOMAIN pets) <= capacity /\ Cardinality(orders) <= maxOrders
  /\ Range(generated) = DOMAIN pets \ Seeds
  /\ \A i, j \in DOMAIN generated : i < j => generated[i] < generated[j]

(* Pets made at boot leave only when a caller deletes them.  (store.go:     *)
(* "Generated pets are evicted FIFO past capacity; seeded pets never are".) *)
SeedsAreNeverEvicted ==
  [][\A id \in Seeds \cap DOMAIN pets : nextPetID' # nextPetID => id \in DOMAIN pets']_vars

(* The ordered catalogue of the original, which knows nothing of            *)
(* tombstones, positions and compaction.                                    *)
Catalogue == INSTANCE PetCatalogue WITH
  Ids <- 1..MaxPetId,  status <- pets, listed <- [k \in Keys |-> Live(lists[k])], Capacity <- capacity

(* A status's pages hold its pets, one after the other, each once, and no   *)
(* page shows a hole or stops short of a full one; they are the pages the   *)
(* original shows.  (List, slice, compact; store.ts, list.)                 *)
PagesCoverTheCatalogue ==
  \A k \in Keys : \A size \in 1..2 :
    LET total == Cardinality({id \in DOMAIN pets : k \in {"all", pets[id]}})
        page(n) == List(k, n, size)
    IN /\ \A n \in 0..total : page(n).total = total
                           /\ page(n) = Catalogue!List(k, n, size)
                           /\ Len(page(n).items) = (IF total <= n * size THEN 0
                                                    ELSE IF total - n * size < size THEN total - n * size ELSE size)
       /\ UNION {Range(page(n).items) : n \in 0..total} = {id \in DOMAIN pets : k \in {"all", pets[id]}}

(* A request leaves the pages as it leaves those of the original.           *)
CatalogueKept == Catalogue!Spec
=============================================================================
