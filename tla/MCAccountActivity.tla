------------------------- MODULE MCAccountActivity -------------------------
(***************************************************************************)
(* Model checking AccountActivity: a cache for two of three accounts, one  *)
(* item of content for each, and factors small enough to raise alerts. The *)
(* messages between them have every kind of event; one has two records of  *)
(* the same cid, and one a record that none of its ops names.              *)
(***************************************************************************)
EXTENDS AccountActivity

MCFactor ==
    [c \in Counters |->
        IF c \in {"reposted", "updates", "events"} THEN 2 ELSE 1]

MCContentFactor == [c \in ContentCounters |-> 2]

MCThreshold == [f \in Facets |-> 1]

Item(did, rkey) == [did |-> did, rkey |-> rkey]

Op(action, cid) == [action |-> action, cid |-> cid, type |-> "post"]

Delete(type) == [action |-> "delete", cid |-> "", type |-> type]

Commit(did, ops, blocks) ==
    [op |-> "commit", did |-> did, ops |-> ops, blocks |-> blocks]

Other(type, cid, subjects) ==
    [type |-> type, cid |-> cid, subjects |-> subjects, hits |-> 0]

Quote ==
    [type |-> "post", cid |-> "q", reply |-> <<>>, embed |-> "record_with_media",
     quoted |-> <<Item("bob", "one")>>, hits |-> 0,
     facets |-> << [tags |-> 2, links |-> 0, mentions |-> 0, facets |-> 2] >>]

Reply ==
    [type |-> "post", cid |-> "r", embed |-> "record", facets |-> <<>>, hits |-> 5,
     reply |-> <<Item("carol", "one"), Item("bob", "one")>>,
     quoted |-> <<Item("bob", "")>>]

MCMessages ==
    { Commit("alice", <<Op("create", "q")>>, <<Quote, Other("list", "l", <<>>)>>),
      Commit("alice", <<Delete("post"), Op("create", "r")>>,
             <<Reply, Other("like", "x", <<Item("bob", "two")>>)>>),
      Commit("carol", <<Op("create", "l"), Op("create", "p")>>,
             << Other("profile", "p", <<>>), Other("like", "l", <<Item("bob", "")>>),
                Other("repost", "l", <<Item("bob", "one")>>) >>),
      Commit("bob", <<Op("create", "b"), Op("create", "f")>>,
             << Other("block", "b", <<Item("carol", "")>>),
                Other("follow", "f", <<Item("alice", "")>>) >>),
      Commit("alice", <<Op("update", "t"), Delete("list")>>,
             << Other("repost", "t", <<Item("bob", "two")>>) >>),
      [op |-> "identity", did |-> "bob", handle |-> TRUE, hits |-> 1],
      [op |-> "account", did |-> "alice", active |-> FALSE] }
=============================================================================
