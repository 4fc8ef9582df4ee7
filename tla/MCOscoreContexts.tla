------------------------- MODULE MCOscoreContexts -------------------------
(* Two entries and a pool of three contexts.  The tokens a management      *)
(* client posts: one for a group, its secret changed, its scope changed,   *)
(* and the id alone; one without a secret; and one for management, set by  *)
(* the handshake.  Two payloads have two objects: a secret before an       *)
(* object without id, and a deletion before a change of scopes.            *)
EXTENDS OscoreContexts, TLC

CONSTANTS o1, o2, k1, k2, c1, c2, g

Group   == [id |-> "t1", osc |-> o1, key |-> k1, ctx |-> None, ga |-> {g},
            profile |-> TRUE]
NewKey  == [id |-> "t1", key |-> k2]
Scope   == [id |-> "t1", scope |-> "sec"]
Delete  == [id |-> "t1"]
NoKey   == [id |-> "t2", osc |-> o2, profile |-> TRUE]
NoId    == [key |-> k1]
Scope2  == [id |-> "t2", scope |-> "sec"]

MCKids == {o1, o2}
MCKeys == {k1, k2}
MCKidCtxs == {c1, c2}
MCGroupAddresses == {g}
MCPosts ==
  {<<Group>>, <<NewKey>>, <<Scope>>, <<Delete>>, <<NoKey>>,
   <<NewKey, NoId>>, <<Delete, Scope2>>}
MCComplete ==                          \* no token without a secret
  {<<Group>>, <<NewKey>>, <<Scope>>, <<Delete>>}
Symmetry == Permutations({c1, c2})
MCSharedTokens ==
  {[id |-> "t2", osc |-> o2, key |-> k2, ctx |-> None, ga |-> {},
    scope |-> "sec", profile |-> TRUE]}
============================================================================
