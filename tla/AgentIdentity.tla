---------------------------- MODULE AgentIdentity ----------------------------
(***************************************************************************)
(* The agent-identity contract: a registry of agents, at most one for each *)
(* owner, an index from owners to agents, and the delegates an owner lets  *)
(* act for its agent until they expire.                                    *)
(*                                                                         *)
(* A contract call is atomic and a panic undoes it.  The owner's signature *)
(* is the parameter caller.  Badges are left out: the contract declares    *)
(* and removes them but has no entry point that issues one.  Permission    *)
(* bit masks are sets of permissions, and & is their intersection.         *)
(***************************************************************************)
EXTENDS Integers, FiniteSets

CONSTANTS
    Addr,           \* accounts
    Admins,         \* accounts proposed as admin
    NotSet,         \* a storage key that has no value
    Uris, BadUri,   \* metadata URIs, and one that validate_uri refuses
    Permissions,    \* PERM_UPDATE_URI, PERM_DEREGISTER, PERM_TRANSFER
    Ttls,           \* lifetimes asked for a delegate
    MaxAgents,      \* bound: how many agents are ever registered
    MaxTime         \* bound: the last ledger time

ASSUME IdentityAssumption ==
    /\ Admins \subseteq Addr /\ NotSet \notin Addr
    /\ BadUri \notin Uris
    /\ Ttls \subseteq Nat

VARIABLES
    admin,              \* DataKey::Admin
    agents,             \* DataKey::Agent: id -> record
    owner_to_id,        \* DataKey::OwnerToId: owner -> id
    next_id,            \* DataKey::NextId
    registered_count,   \* DataKey::RegisteredCount
    delegates,          \* DataKey::Delegate: <<id, delegate>> -> record
    now                 \* env.ledger().timestamp()

registry == <<agents, owner_to_id, next_id, registered_count>>
vars     == <<admin, registry, delegates, now>>

Init ==
    /\ admin = NotSet
    /\ agents = << >> /\ owner_to_id = << >>
    /\ next_id = 1 /\ registered_count = 0
    /\ delegates = [k \in {} |-> << >>]
    /\ now = 1

\* Storage writes: a key gets a value, a key is removed.
Set(f, k, v)  == [x \in DOMAIN f \cup {k} |-> IF x = k THEN v ELSE f[x]]
Remove(f, k)  == [x \in DOMAIN f \ {k} |-> f[x]]

IsOwner(caller, id) == id \in DOMAIN agents /\ agents[id].owner = caller

validate_uri(uri) == uri # BadUri

----------------------------------------------------------------------------
init(caller) ==
    /\ admin = NotSet
    /\ admin' = caller
    /\ UNCHANGED <<registry, delegates, now>>

Enrol(id, owner, uri) ==
    /\ agents' = Set(agents, id, [owner |-> owner, uri |-> uri])
    /\ owner_to_id' = Set(owner_to_id, owner, id)
    /\ registered_count' = registered_count + 1
    /\ UNCHANGED <<admin, delegates, now>>

\* Mutants: a free id is taken again; the counter is not advanced.
RegisterFreeId(owner, uri) ==
    /\ validate_uri(uri)
    /\ owner \notin DOMAIN owner_to_id
    /\ next_id <= MaxAgents
    /\ next_id' = next_id + 1
    /\ Enrol(CHOOSE id \in 1..next_id : id \notin DOMAIN agents, owner, uri)
RegisterAtNext(owner, uri) ==
    /\ validate_uri(uri)
    /\ owner \notin DOMAIN owner_to_id
    /\ next_id <= MaxAgents
    /\ Enrol(next_id, owner, uri)
    /\ UNCHANGED next_id

register(owner, uri) ==
    /\ validate_uri(uri)
    /\ owner \notin DOMAIN owner_to_id
    /\ next_id <= MaxAgents
    /\ next_id' = next_id + 1
    /\ Enrol(next_id, owner, uri)

update_uri(caller, id, new_uri) ==
    /\ validate_uri(new_uri)
    /\ IsOwner(caller, id)
    /\ agents' = [agents EXCEPT ![id].uri = new_uri]
    /\ UNCHANGED <<admin, owner_to_id, next_id, registered_count, delegates, now>>

saturating_sub(a, b) == IF a < b THEN 0 ELSE a - b

\* Mutant: the count only ever grows.
DeregisterUncounted(caller, id) ==
    /\ IsOwner(caller, id)
    /\ agents' = Remove(agents, id)
    /\ owner_to_id' = Remove(owner_to_id, caller)
    /\ UNCHANGED <<admin, registered_count, next_id, delegates, now>>

\* The index entry goes only if it still points to this agent; delegates stay.
deregister(caller, id) ==
    /\ IsOwner(caller, id)
    /\ agents' = Remove(agents, id)
    /\ owner_to_id' = IF caller \in DOMAIN owner_to_id /\ owner_to_id[caller] = id
                      THEN Remove(owner_to_id, caller) ELSE owner_to_id
    /\ registered_count' = saturating_sub(registered_count, 1)
    /\ UNCHANGED <<admin, next_id, delegates, now>>

\* Mutant: the old owner stays in the index.
TransferKeepsIndex(caller, id, new_owner) ==
    /\ IsOwner(caller, id)
    /\ new_owner \notin DOMAIN owner_to_id
    /\ owner_to_id' = Set(owner_to_id, new_owner, id)
    /\ agents' = [agents EXCEPT ![id].owner = new_owner]
    /\ UNCHANGED <<admin, next_id, registered_count, delegates, now>>

\* transfer_owner is an alias.  Both owners sign; delegates stay.
update_owner(caller, id, new_owner) ==
    /\ IsOwner(caller, id)
    /\ new_owner \notin DOMAIN owner_to_id
    /\ owner_to_id' = Set(Remove(owner_to_id, caller), new_owner, id)
    /\ agents' = [agents EXCEPT ![id].owner = new_owner]
    /\ UNCHANGED <<admin, next_id, registered_count, delegates, now>>

\* A later grant to the same delegate replaces the earlier one.
add_delegate(owner, id, delegate, ttl, permissions) ==
    /\ IsOwner(owner, id)
    /\ delegates' = Set(delegates, <<id, delegate>>,
                        [valid_until |-> now + ttl, permissions |-> permissions])
    /\ UNCHANGED <<admin, registry, now>>

revoke_delegate(owner, id, delegate) ==
    /\ IsOwner(owner, id)
    /\ delegates' = Remove(delegates, <<id, delegate>>)
    /\ UNCHANGED <<admin, registry, now>>

Tick ==
    /\ now < MaxTime
    /\ now' = now + 1
    /\ UNCHANGED <<admin, registry, delegates>>

OwnerStep(caller, id) ==
    \/ \E uri \in Uris \cup {BadUri} : update_uri(caller, id, uri)
    \/ deregister(caller, id)
    \/ \E new_owner \in Addr : update_owner(caller, id, new_owner)
    \/ \E delegate \in Addr :
          \/ \E ttl \in Ttls, permissions \in SUBSET Permissions :
                add_delegate(caller, id, delegate, ttl, permissions)
          \/ revoke_delegate(caller, id, delegate)

Next ==
    \/ \E caller \in Admins : init(caller)
    \/ \E owner \in Addr, uri \in Uris \cup {BadUri} : register(owner, uri)
    \/ \E caller \in Addr, id \in DOMAIN agents : OwnerStep(caller, id)
    \/ Tick

Spec == Init /\ [][Next]_vars

----------------------------------------------------------------------------
(* Queries. *)

\* The record is neither absent nor expired and shares a required permission.
check_delegate(id, caller, required) ==
    /\ id \in DOMAIN agents
    /\ \/ agents[id].owner = caller
       \/ /\ <<id, caller>> \in DOMAIN delegates
          /\ delegates[<<id, caller>>].valid_until >= now
          /\ delegates[<<id, caller>>].permissions \cap required # {}

----------------------------------------------------------------------------
(* Properties. *)

Ids == 1..(next_id - 1)

\* Every variable stays in its domain, and every agent and delegate has an id
\* that was assigned.
TypeOK ==
    /\ admin \in Addr \cup {NotSet}
    /\ next_id \in Nat \ {0} /\ registered_count \in Nat /\ now \in Nat
    /\ DOMAIN agents \subseteq Ids
    /\ \A id \in DOMAIN agents : agents[id] \in [owner : Addr, uri : Uris]
    /\ DOMAIN owner_to_id \subseteq Addr
    /\ DOMAIN delegates \subseteq Ids \X Addr
    /\ \A k \in DOMAIN delegates :
          delegates[k] \in [valid_until : Nat, permissions : SUBSET Permissions]

\* The owner index and the agents mirror each other through registrations,
\* transfers and deregistrations in any order: no owner has two agents, none is
\* locked out by an entry of an agent that is gone, and every agent is found.
IndexMirrorsAgents ==
    /\ \A id \in DOMAIN agents :
          /\ agents[id].owner \in DOMAIN owner_to_id
          /\ owner_to_id[agents[id].owner] = id
    /\ \A owner \in DOMAIN owner_to_id :
          /\ owner_to_id[owner] \in DOMAIN agents
          /\ agents[owner_to_id[owner]].owner = owner

\* registered_count is the number of live agents: its saturating subtraction
\* never saturates, and no path of leaving or returning counts twice.
CountIsLive == registered_count = Cardinality(DOMAIN agents)

\* Nobody gains a say over an agent but by owning it or by a grant its owner
\* makes in this very step.  Delegates are kept when an agent is deregistered,
\* so this rests on an id never naming a second agent, which would inherit them.
AuthorityIsGranted ==
    [][\A id \in DOMAIN agents', a \in Addr, required \in SUBSET Permissions :
          (/\ check_delegate(id, a, required)'
           /\ ~check_delegate(id, a, required)
           /\ agents'[id].owner # a)
          => /\ id \in DOMAIN agents
             /\ \E ttl \in Ttls, permissions \in SUBSET Permissions :
                   add_delegate(agents[id].owner, id, a, ttl, permissions)]_vars

=============================================================================
