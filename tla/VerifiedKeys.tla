---------------------------- MODULE VerifiedKeys ----------------------------
(***************************************************************************)
(* API key verification: organizations and their keys in PostgreSQL, the   *)
(* positive cache of verified keys in Redis (one entry per key hash and    *)
(* one set of hashes per organization, both with the same TTL), requests   *)
(* that authenticate, and operators who revoke keys or change the status   *)
(* of an organization and publish the invalidation after their commit.     *)
(*                                                                         *)
(* A verification reads the cache, the key row and the organization row    *)
(* and writes the cache in four steps, between which an operator may       *)
(* commit or invalidate.  TTLs are counted in ticks.                       *)
(***************************************************************************)
EXTENDS Naturals

CONSTANTS
    Keys,        \* API keys that exist or may be issued
    Orgs,        \* Organizations
    OrgOf,       \* the Organization of a key
    Issued,      \* keys that exist initially
    Clients,     \* concurrent requests
    Operators,   \* concurrent administrative requests
    TTL          \* verify_cache_ttl_seconds, in ticks

ASSUME KeysAssumption ==
    /\ OrgOf \in [Keys -> Orgs]
    /\ Issued \subseteq Keys
    /\ TTL \in Nat \ {0}

VARIABLES
    key,       \* organization_api_keys: absent, active, revoked
    org,       \* organizations: active, disabled, archived
    entry,     \* Redis entry of a key: ticks to live (0: none)
    members,   \* Redis set of an organization: its hashes and ticks to live
    client,    \* a request that authenticates
    operator,  \* an operator between commit and the end of the invalidation
    outdated,  \* history: clients whose key or organization was withdrawn
               \* after they had read the key row
    tainted,   \* history: keys whose entry was written by such a client, or
               \* whose invalidation died with its process
    orphaned   \* history: keys whose entry outlived the set that named it: an
               \* organization invalidation deleted the set without the entry

authVars == <<key, org, entry, members, client, operator, outdated, tainted, orphaned>>

-----------------------------------------------------------------------------
KeysOf(o) == {k \in Keys : OrgOf[k] = o}
Valid(k) == key[k] = "active" /\ org[OrgOf[k]] = "active"

Client == [pc : {"idle", "lookup", "readKey", "readOrg", "store", "in"},
           key : Keys]
Operator ==
    [pc : {"idle"}]
        \cup [pc : {"key"}, key : Keys]
        \cup [pc : {"org"}, org : Orgs]
        \cup [pc : {"members"}, org : Orgs, keys : SUBSET Keys]
Idle == [pc |-> "idle"]

AuthInit ==
    /\ key = [k \in Keys |-> IF k \in Issued THEN "active" ELSE "absent"]
    /\ org = [o \in Orgs |-> "active"]
    /\ entry = [k \in Keys |-> 0]
    /\ members = [o \in Orgs |-> [keys |-> {}, ttl |-> 0]]
    /\ client \in [Clients -> [pc : {"idle"}, key : Issued]]
    /\ operator = [v \in Operators |-> Idle]
    /\ outdated = {}
    /\ tainted = {}
    /\ orphaned = {}

-----------------------------------------------------------------------------
(* A request: _resolve_organization_from_key.                               *)

Goto(c, place) == client' = [client EXCEPT ![c].pc = place]
Reject(c) == Goto(c, "idle") /\ outdated' = outdated \ {c}
Database == <<key, org>>
Redis == <<entry, members, tainted, orphaned>>

Arrive(c, k) ==
    /\ client[c].pc = "idle"
    /\ key[k] # "absent"
    /\ client' = [client EXCEPT ![c] = [pc |-> "lookup", key |-> k]]
    /\ UNCHANGED <<Database, Redis, operator, outdated>>

\* MUTANT: a hit prolongs the entry.
LookupCacheSliding(c) ==
    /\ client[c].pc = "lookup"
    /\ LET hit == entry[client[c].key] > 0 IN
         /\ Goto(c, IF hit THEN "in" ELSE "readKey")
         /\ entry' = IF hit THEN [entry EXCEPT ![client[c].key] = TTL] ELSE entry
    /\ UNCHANGED <<Database, members, tainted, orphaned, operator, outdated>>

\* A cached entry admits the request; only active organizations are cached.
\* A miss goes to the database.
LookupCache(c) ==
    /\ client[c].pc = "lookup"
    /\ Goto(c, IF entry[client[c].key] > 0 THEN "in" ELSE "readKey")
    /\ UNCHANGED <<Database, Redis, operator, outdated>>

ReadKey(c) ==
    /\ client[c].pc = "readKey"
    /\ IF key[client[c].key] = "active"
         THEN Goto(c, "readOrg") /\ UNCHANGED outdated
         ELSE Reject(c)
    /\ UNCHANGED <<Database, Redis, operator>>

ReadOrg(c) ==
    /\ client[c].pc = "readOrg"
    /\ IF org[OrgOf[client[c].key]] = "active"
         THEN Goto(c, "store") /\ UNCHANGED outdated
         ELSE Reject(c)
    /\ UNCHANGED <<Database, Redis, operator>>

\* MUTANT: the new TTL is added to what is left.
CachedLonger(k) ==
    /\ entry' = [entry EXCEPT ![k] = @ + TTL]
    /\ members' = [members EXCEPT ![OrgOf[k]] =
                     [keys |-> @.keys \cup {k}, ttl |-> TTL]]

\* MUTANT: the hash does not join the set of its organization.
CachedUnlisted(k) ==
    /\ entry' = [entry EXCEPT ![k] = TTL]
    /\ members' = [members EXCEPT ![OrgOf[k]].ttl = TTL]

\* RedisVerifiedKeyCache.set: entry and membership in one MULTI, each with a
\* fresh TTL.
Cached(k) ==
    /\ entry' = [entry EXCEPT ![k] = TTL]
    /\ members' = [members EXCEPT ![OrgOf[k]] =
                     [keys |-> @.keys \cup {k}, ttl |-> TTL]]

Store(c) ==
    /\ client[c].pc = "store"
    /\ Cached(client[c].key)
    /\ Goto(c, "in")
    /\ tainted' = IF c \in outdated THEN tainted \cup {client[c].key}
                                    ELSE tainted \ {client[c].key}
    /\ orphaned' = orphaned \ {client[c].key}
    /\ outdated' = outdated \ {c}
    /\ UNCHANGED <<Database, operator>>

Leave(c) ==
    /\ client[c].pc = "in"
    /\ Goto(c, "idle")
    /\ UNCHANGED <<Database, Redis, operator, outdated>>

-----------------------------------------------------------------------------
(* Operators: ApiKeyService and OrganizationService commit the row and then *)
(* publish the event that the cache's handler turns into an invalidation.   *)

Withdrawn(ks) ==
    outdated' = outdated \cup
        {c \in Clients : client[c].key \in ks
                         /\ client[c].pc \in {"readOrg", "store"}}

CreateKey(k) ==
    /\ key[k] = "absent"
    /\ org[OrgOf[k]] = "active"
    /\ key' = [key EXCEPT ![k] = "active"]
    /\ UNCHANGED <<org, Redis, client, operator, outdated>>

PublishKey(v, k) == operator' = [operator EXCEPT ![v] = [pc |-> "key", key |-> k]]
PublishOrg(v, o) == operator' = [operator EXCEPT ![v] = [pc |-> "org", org |-> o]]

Revoke(v, k) ==
    /\ operator[v].pc = "idle"
    /\ key[k] = "active"
    /\ key' = [key EXCEPT ![k] = "revoked"]
    /\ Withdrawn({k})
    /\ PublishKey(v, k)
    /\ UNCHANGED <<org, Redis, client>>

\* rotate(): the replacement is issued with the revocation of the old key, or
\* without it (then nothing is published).
Rotate(v, old, new) ==
    /\ operator[v].pc = "idle"
    /\ OrgOf[new] = OrgOf[old]
    /\ org[OrgOf[old]] = "active"
    /\ key[old] = "active"
    /\ key[new] = "absent"
    /\ key' = [key EXCEPT ![new] = "active", ![old] = "revoked"]
    /\ Withdrawn({old})
    /\ PublishKey(v, old)
    /\ UNCHANGED <<org, Redis, client>>

\* set_status, soft_delete and restore; a restored Organization is disabled.
StatusChange == {<<"active", "disabled">>, <<"disabled", "active">>,
                 <<"active", "archived">>, <<"disabled", "archived">>,
                 <<"archived", "disabled">>}

SetStatus(v, o, s) ==
    /\ operator[v].pc = "idle"
    /\ <<org[o], s>> \in StatusChange
    /\ org' = [org EXCEPT ![o] = s]
    /\ IF org[o] = "active" THEN Withdrawn(KeysOf(o)) ELSE UNCHANGED outdated
    /\ PublishOrg(v, o)
    /\ UNCHANGED <<key, Redis, client>>

Done(v) == operator' = [operator EXCEPT ![v] = Idle]
Without(ks) ==
    /\ entry' = [k \in Keys |-> IF k \in ks THEN 0 ELSE entry[k]]
    /\ tainted' = tainted \ ks

\* RedisVerifiedKeyCache.invalidate: the hash leaves the set of the
\* organization if the entry that names it was there.
InvalidateKey(v) ==
    /\ operator[v].pc = "key"
    /\ LET k == operator[v].key IN
         /\ Without({k})
         /\ members' = IF entry[k] > 0
                         THEN [members EXCEPT ![OrgOf[k]].keys = @ \ {k}]
                         ELSE members
         /\ orphaned' = orphaned \ {k}
    /\ Done(v)
    /\ UNCHANGED <<Database, client, outdated>>

\* invalidate_organization: SMEMBERS, then one MULTI that deletes the entries
\* it named and the whole set.  A hash that joined the set in between loses its
\* place in it and keeps its entry.
ReadMembers(v) ==
    /\ operator[v].pc = "org"
    /\ LET o == operator[v].org IN
         IF members[o].keys = {}
           THEN Done(v)
           ELSE operator' = [operator EXCEPT ![v] =
                    [pc |-> "members", org |-> o, keys |-> members[o].keys]]
    /\ UNCHANGED <<Database, Redis, client, outdated>>

DeleteMembers(v) ==
    /\ operator[v].pc = "members"
    /\ Without(operator[v].keys)
    /\ LET late == members[operator[v].org].keys \ operator[v].keys IN
         orphaned' = (orphaned \ operator[v].keys) \cup {k \in late : entry[k] > 0}
    /\ members' = [members EXCEPT ![operator[v].org] = [keys |-> {}, ttl |-> 0]]
    /\ Done(v)
    /\ UNCHANGED <<Database, client, outdated>>

\* The process dies (or Redis refuses) between the commit and the end of the
\* invalidation: nothing repeats it.
Uninvalidated(v) ==
    CASE operator[v].pc = "key" -> {operator[v].key}
      [] operator[v].pc = "org" -> KeysOf(operator[v].org)
      [] operator[v].pc = "members" -> KeysOf(operator[v].org)
      [] OTHER -> {}

LoseInvalidation(v) ==
    /\ operator[v].pc # "idle"
    /\ tainted' = tainted \cup {k \in Uninvalidated(v) : entry[k] > 0}
    /\ Done(v)
    /\ UNCHANGED <<Database, entry, members, orphaned, client, outdated>>

-----------------------------------------------------------------------------
\* Time passes in Redis.
Tick ==
    /\ \E o \in Orgs : members[o].ttl > 0
       \/ \E k \in KeysOf(o) : entry[k] > 0
    /\ entry' = [k \in Keys |-> IF entry[k] > 0 THEN entry[k] - 1 ELSE 0]
    /\ tainted' = {k \in tainted : entry[k] > 1}
    /\ orphaned' = {k \in orphaned : entry[k] > 1}
    /\ members' = [o \in Orgs |->
         IF members[o].ttl > 1
           THEN [members[o] EXCEPT !.ttl = @ - 1]
           ELSE [keys |-> {}, ttl |-> 0]]
    /\ UNCHANGED <<Database, client, operator, outdated>>

Verify(c) == LookupCache(c) \/ ReadKey(c) \/ ReadOrg(c) \/ Store(c)
Invalidate(v) == InvalidateKey(v) \/ ReadMembers(v) \/ DeleteMembers(v)
Administer(v) ==
    \/ \E k \in Keys : Revoke(v, k) \/ \E n \in Keys : Rotate(v, k, n)
    \/ \E o \in Orgs, s \in {"active", "disabled", "archived"} : SetStatus(v, o, s)

AuthStep ==
    \/ \E c \in Clients : (\E k \in Keys : Arrive(c, k)) \/ Verify(c)
    \/ \E k \in Keys : CreateKey(k)
    \/ \E v \in Operators :
         Administer(v) \/ Invalidate(v) \/ LoseInvalidation(v)
    \/ Tick

AuthNext == AuthStep \/ \E c \in Clients : Leave(c)

\* Requests and invalidations run to their end or their process dies (a
\* verification that ends is indistinguishable from one that was rejected);
\* Redis expires entries.
AuthFairness ==
    /\ \A c \in Clients : WF_authVars(Verify(c))
    /\ WF_authVars(Tick)

AuthSpec == AuthInit /\ [][AuthNext]_authVars /\ AuthFairness

-----------------------------------------------------------------------------
(* Properties.                                                              *)

\* Types; an entry never outlives the set of its organization while it is in it.
AuthTypeOK ==
    /\ key \in [Keys -> {"absent", "active", "revoked"}]
    /\ org \in [Orgs -> {"active", "disabled", "archived"}]
    /\ entry \in [Keys -> 0 .. TTL]
    /\ members \in [Orgs -> [keys : SUBSET Keys, ttl : 0 .. TTL]]
    /\ client \in [Clients -> Client]
    /\ operator \in [Operators -> Operator]
    /\ outdated \subseteq Clients
    /\ tainted \subseteq Keys
    /\ orphaned \subseteq Keys

\* A revoked key is in the cache only while its invalidation is still to come,
\* because a verification that had read the row before the revocation wrote it
\* afterwards, or because the invalidation died with its process: an
\* invalidation after the commit leaves nothing else behind.
RevokedEntryExplained ==
    \A k \in Keys :
        key[k] = "revoked" /\ entry[k] > 0
            => \/ k \in tainted
               \/ \E v \in Operators : operator[v] = [pc |-> "key", key |-> k]

\* The invalidation of the organization of a key is still to come, or has named
\* the key and is about to delete its entry.
ToBeDropped(k) ==
    \E v \in Operators :
        \/ operator[v] = [pc |-> "org", org |-> OrgOf[k]]
        \/ operator[v].pc = "members" /\ k \in operator[v].keys

\* The same for a key of a withdrawn Organization, with one more reason: an
\* earlier invalidation, which ran while the key was verified and stored, deleted
\* the set that would have led the present one to the entry.
WithdrawnEntryExplained ==
    \A k \in Keys :
        org[OrgOf[k]] # "active" /\ entry[k] > 0
            => k \in tainted \/ k \in orphaned \/ ToBeDropped(k)

\* A withdrawn key is in the cache only because its invalidation is to come, was
\* lost or was overtaken by an older verification, or, when its Organization is
\* withdrawn, because an overlapping organization invalidation orphaned its entry.
WithdrawnKeysExplained == RevokedEntryExplained /\ WithdrawnEntryExplained

\* docs/learning/organization-api-key-auth-journey.md:213: the invalidation of an
\* Organization drops "all cached keys for tenant".  It is claimed only while
\* the cache holds nothing that a stale verification or a lost invalidation left.
TenantKeysDropped ==
    tainted = {} =>
        \A k \in Keys : org[OrgOf[k]] # "active" /\ entry[k] > 0 => ToBeDropped(k)

\* A revoked key is refused in the end, whatever was cached, raced or lost: a
\* request that the cache admits does not prolong the entry that admits it.
RevocationTakesEffect ==
    \A k \in Keys : (key[k] = "revoked") ~> [](entry[k] = 0)
=============================================================================
