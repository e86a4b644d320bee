--------------------------- MODULE MCEmbedChecker ---------------------------
(***************************************************************************)
(* Model checking EmbedChecker: links that redirect to a shortener, to     *)
(* each other and in a circle, posted by two accounts.                     *)
(***************************************************************************)
EXTENDS EmbedChecker

MCHost == [shop |-> "shop.example", blog |-> "blog.example",
           short |-> "short.example", again |-> "short.example",
           broken |-> "blog.example"]

\* "short" is on a popular host and matches a rule.
MCRedirections ==
    [shop |-> {"short", "blog"}, blog |-> {"short"},
     short |-> {"again", "blog", "shop"}, again |-> {"short", "broken"},
     broken |-> {}]

MCHostTables == {{"blog.example"}}

MCContents ==
    { [repo |-> "alice", embed |-> "external", uri |-> "shop", media |-> <<"cat">>,
       links |-> <<>>],
      [repo |-> "bob", embed |-> "images", uri |-> "none", media |-> <<"cat">>,
       links |-> <<"blog", "shop">>],
      [repo |-> "bob", embed |-> "record_with_media", uri |-> "post",
       media |-> <<"cat">>, links |-> <<"broken">>],
      [repo |-> "alice", embed |-> "video", uri |-> "none", media |-> <<"film">>,
       links |-> <<"short">>],
      [repo |-> "alice", embed |-> "none", uri |-> "none", media |-> <<>>,
       links |-> <<"blog">>] }
=============================================================================
