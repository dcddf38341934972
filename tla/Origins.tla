------------------------------ MODULE Origins -------------------------------
(***************************************************************************)
(* The two petstores side by side, given the same requests: the one in Go  *)
(* (PetStore), which serializes every answer anew, and the one it was      *)
(* ported from (petstore/server.ts over PetCatalogue), which runs where    *)
(* there is no Go binary and keeps serialized listings and pets.           *)
(*                                                                         *)
(* A cached listing is good while the store's version is the one it was    *)
(* made at, a cached pet while the store holds the object it was made of.  *)
(* An entry that is not is as none, and is left out here.                  *)
(***************************************************************************)
EXTENDS PetStore

CONSTANTS
  Texts, Described,   \* descriptions; bound: the pets whose description is updated
  Listings            \* bound: the listings asked for, as <<status or "all", page, size>>

ASSUME OriginsAssumption ==
  /\ Described \subseteq 1..MaxPetId
  /\ \A q \in Listings : q[1] \in Keys /\ q[2] \in Nat /\ q[3] \in 1..100

VARIABLES
  tsPets, tsListed,       \* the status of each pet, and byStatus and the Map's order
  text,                   \* each pet's description, in both
  listBaseByKey, petBaseById   \* the caches
tsVars  == <<tsPets, tsListed, text>>
caches  == <<listBaseByKey, petBaseById>>
twinVars == <<vars, tsVars, caches>>

Original == INSTANCE PetCatalogue WITH
  Ids <- 1..MaxPetId, status <- tsPets, listed <- tsListed, Capacity <- capacity

TwinInit ==
  /\ Init /\ Original!Init /\ text \in [Seeds -> Texts] /\ \A i, j \in Seeds : text[i] = text[j]
  /\ listBaseByKey = <<>> /\ petBaseById = <<>>

-----------------------------------------------------------------------------
(* What an answer says: a pet is its status and its description.            *)
Pet(id, st) == <<id, st[id], text[id]>>
Listing(page, st) == [total |-> page.total, items |-> [i \in DOMAIN page.items |-> Pet(page.items[i], st)]]

\* seedTotalByStatus
SeedTotal(k) == Cardinality({id \in Seeds : k \in {"all", SeedStatus(id)}})
Entered(cache, key, base) == [x \in DOMAIN cache \cup {key} |-> IF x = key THEN base ELSE cache[x]]

(* listBaseFor: a listing of pets made at boot only is kept.                *)
GetPets(q) ==
  LET page == Original!List(q[1], q[2], q[3]) IN
  /\ q \notin DOMAIN listBaseByKey
  /\ page.total = SeedTotal(q[1]) /\ Range(page.items) \subseteq Seeds
  /\ listBaseByKey' = Entered(listBaseByKey, q, Listing(page, tsPets))
  /\ UNCHANGED <<vars, tsVars, petBaseById>>

(* petBaseFor                                                               *)
GetPet(id) ==
  /\ id \in Seeds \cap DOMAIN tsPets /\ id \notin DOMAIN petBaseById
  /\ petBaseById' = Entered(petBaseById, id, Pet(id, tsPets))
  /\ UNCHANGED <<vars, tsVars, listBaseByKey>>

-----------------------------------------------------------------------------
\* mutant: the pets are counted, and listings are good while there are as many
NewVersionByCount ==
  listBaseByKey' = IF Cardinality(DOMAIN tsPets') = Cardinality(DOMAIN tsPets) THEN listBaseByKey ELSE <<>>
\* version: every listing was made at an older one
NewVersion == listBaseByKey' = <<>>
\* the object is another one, or gone
NewObject(ids) == petBaseById' = Restrict(petBaseById, DOMAIN petBaseById \ ids)
TextOf(ids) == text' = [id \in ids |-> IF id \in DOMAIN text THEN text[id] ELSE CHOOSE t \in Texts : TRUE]

TwinCreate(st) ==
  /\ Create(st) /\ Original!Create(nextPetID, st)
  /\ TextOf(DOMAIN tsPets') /\ NewVersion /\ NewObject(DOMAIN tsPets \ DOMAIN tsPets')

TwinUpdate(id, st) ==
  /\ Update(id, st) /\ Original!Update(id, st)
  /\ NewVersion /\ NewObject({id}) /\ UNCHANGED text

(* An update of the description alone.                                      *)
Describe(id, t) ==
  /\ id \in DOMAIN tsPets \cap Described /\ t # text[id]
  /\ text' = [text EXCEPT ![id] = t] /\ UNCHANGED <<vars, tsPets, tsListed>>
  /\ NewVersion /\ NewObject({id})

TwinDelete(id) ==
  /\ Delete(id) /\ Original!Delete(id)
  /\ TextOf(DOMAIN tsPets') /\ NewVersion /\ NewObject({id})

TwinOrder == DOMAIN tsPets # {} /\ PlaceOrder /\ UNCHANGED <<tsVars, caches>>

TwinNext ==
  \/ \E st \in Statuses : TwinCreate(st) \/ \E id \in DOMAIN pets : TwinUpdate(id, st)
  \/ \E id \in DOMAIN pets : TwinDelete(id) \/ GetPet(id) \/ \E t \in Texts : Describe(id, t)
  \/ \E q \in Listings : GetPets(q)
  \/ TwinOrder
TwinSpec == TwinInit /\ [][TwinNext]_twinVars

-----------------------------------------------------------------------------
(* Whatever is served from a cache is what the petstore in Go, given the    *)
(* same requests, would answer now: after any mix of creates, updates,      *)
(* deletes and evictions, a delete that a create makes up for and an update *)
(* that changes no status included.  (server.ts:161, "counting served the   *)
(* pre-update body of every updated pet for the lifetime of the process".)  *)
NoStaleBody ==
  /\ \A q \in DOMAIN listBaseByKey : listBaseByKey[q] = Listing(List(q[1], q[2], q[3]), pets)
  /\ \A id \in DOMAIN petBaseById \cap DOMAIN pets : petBaseById[id] = Pet(id, pets)
=============================================================================
