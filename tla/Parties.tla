------------------------------- MODULE Parties -------------------------------
(***************************************************************************)
(* Parties and their registry (matchmaking/src/party.rs).  A solo player   *)
(* is a party of one whose id is the player's; a party of several takes an *)
(* id from the registry's own counter.  Both kinds share one map.          *)
(***************************************************************************)
EXTENDS Naturals, FiniteSets, Functions

CONSTANTS Player,       \* player ids: naturals
          SizeLimits,   \* values of party_size_limit, None meaning no limit
          MaxParties,   \* bound: ids the counter hands out
          None

VARIABLES registry,   \* PartyRegistry.parties: id |-> members
          next_id,    \* PartyRegistry.next_id
          active      \* (history) the parties registered and not removed since

vars == <<registry, next_id, active>>

Party == [id : Nat, members : (SUBSET Player) \ {{}}]

TypeOK ==
    /\ \A id \in DOMAIN registry : [id |-> id, members |-> registry[id]] \in Party
    /\ next_id \in 0..MaxParties
    /\ active \subseteq Party

Init == registry = <<>> /\ next_id = 0 /\ active = {}

Solo(p) == [id |-> p, members |-> {p}]

\* Party::new: no members, or more than the limit, is an error.
Formable(members, limit) ==
    /\ members # {}
    /\ limit # None => Cardinality(members) <= limit

\* HashMap::insert: a party with the same id is replaced.  It takes a party of any
\* id; those registered here have the id they were made with, a solo player's own
\* or one of the counter's.
Register(party) ==
    /\ registry' = [id \in DOMAIN registry \cup {party.id} |->
                      IF id = party.id THEN party.members ELSE registry[id]]
    /\ active' = active \cup {party}

RegisterSolo(p) == Register(Solo(p)) /\ UNCHANGED next_id

\* The counter counts the parties that are there.
FaultyNextId == Cardinality(DOMAIN registry)

\* The registry's counter after PartyRegistry::next_id
NextId == next_id + 1

\* The id is consumed although the party may then be refused.
FormParty(members, limit) ==
    /\ next_id < MaxParties
    /\ next_id' = NextId
    /\ IF Formable(members, limit)
       THEN Register([id |-> next_id, members |-> members])
       ELSE UNCHANGED <<registry, active>>

RemoveParty(id) ==
    /\ id \in DOMAIN registry
    /\ registry' = RestrictDomain(registry, LAMBDA i : i # id)
    /\ active' = {party \in active : party.id # id}
    /\ UNCHANGED next_id

Next ==
    \/ \E p \in Player : RegisterSolo(p)
    \/ \E members \in SUBSET Player, limit \in SizeLimits : FormParty(members, limit)
    \/ \E id \in Nat \cap DOMAIN registry : RemoveParty(id)

Spec == Init /\ [][Next]_vars

\* check_party_integrity: no registered party is partly in the match.
IntegrityKept(players) ==
    \A id \in DOMAIN registry :
        registry[id] \cap players # {} => registry[id] \subseteq players

\* A party keeps its place and its members until it is removed, except where a
\* solo player's id is the number the counter gave to another party: those two
\* replace each other, and nothing else ever does.
OnlySolosCollide ==
    \A party \in active :
        \/ party.id \in DOMAIN registry /\ registry[party.id] = party.members
        \/ \E other \in active \ {party} :
              /\ other.id = party.id /\ registry[party.id] = other.members
              /\ party = Solo(party.id) \/ other = Solo(party.id)
=============================================================================
