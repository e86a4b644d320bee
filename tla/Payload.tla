------------------------------- MODULE Payload -------------------------------
(***************************************************************************)
(* What a message of the firehose has the post_processor do for the        *)
(* event_recorder: the events it asks to record, in their order, and the   *)
(* accounts it looks up. A message is one of                               *)
(*                                                                         *)
(*   [op |-> "commit", did, ops, blocks]    changes to the records of did  *)
(*   [op |-> "identity", did, handle, hits] "#identity" and "#handle"      *)
(*   [op |-> "account", did, active]        "#account" and "#tombstone"    *)
(*                                                                         *)
(* where "handle" says whether there is one. The ops are                   *)
(* [action, cid, type] and the blocks, the records of the CAR file,        *)
(*                                                                         *)
(*   [type |-> "post", cid, reply, embed, quoted, facets, hits]            *)
(*   [type, cid, subjects, hits]            of other types                 *)
(*                                                                         *)
(* where "hits" is the number of matches that the matcher finds in what is *)
(* searched of the record, "reply" and "quoted" are the subjects, if any,  *)
(* and "facets" is <<>> or a sequence of one function of counts. Of a path *)
(* the type of its record is left. Embeds are in EmbedChecker.             *)
(***************************************************************************)
EXTENDS Naturals, SequencesExt

Recording(kind, did, subjects) == [kind |-> kind, did |-> did, subjects |-> subjects]

When(condition, recording) == IF condition THEN <<recording>> ELSE <<>>

\* Not a recording: the account is looked up in the cache.
Loading(did) == Recording("lookup", did, <<>>)

-----------------------------------------------------------------------------
(***************************************************************************)
(* The parser. A block is stored once for each cid; the records of two     *)
(* types have text to be searched, and come last.                          *)
(***************************************************************************)
Matchable(block) == block.type \in {"post", "profile"}

Stored(blocks) ==
    FoldLeft(LAMBDA stored, block :
                IF \E i \in DOMAIN stored : stored[i].cid = block.cid
                  THEN stored ELSE Append(stored, block),
             <<>>, blocks)

InOrder(blocks) ==
    SelectSeq(Stored(blocks), LAMBDA block : ~Matchable(block))
    \o SelectSeq(Stored(blocks), Matchable)

\* A record is only looked at if an op that is no deletion has its cid.
Handled(message) ==
    LET named == {message.ops[i].cid : i \in
                    {j \in DOMAIN message.ops : message.ops[j].action # "delete"}} IN
    SelectSeq(InOrder(message.blocks), LAMBDA block : block.cid \in named)

-----------------------------------------------------------------------------
(***************************************************************************)
(* handle_content and process_embed. A quote is noted in a member, the     *)
(* flag that is looked at in the end is a local: only a reply is not       *)
(* recorded as a plain post. Facets count where there is an embed.         *)
(***************************************************************************)
QuoteEmbeds == {"record", "record_with_media"}

\* Variant: a reply that quotes is only recorded as a reply.
PostRecordingsOnce(did, post) ==
    IF post.reply # <<>> THEN <<Recording("reply", did, post.reply)>>
    ELSE When(post.embed \in QuoteEmbeds, Recording("quote", did, post.quoted))
         \o << Recording("post", did, <<>>) >>

PostRecordings(did, post) ==
    When(post.reply # <<>>, Recording("reply", did, post.reply))
    \o When(post.embed \in QuoteEmbeds, Recording("quote", did, post.quoted))
    \o (IF post.embed = "none" \/ post.facets = <<>> THEN <<>>
        ELSE << [kind |-> "facets", did |-> did, subjects |-> <<>>,
                 count |-> post.facets[1]] >>)
    \o When(post.reply = <<>>, Recording("post", did, <<>>))

RecordRecordings(did, block) ==
    CASE block.type = "post" -> PostRecordings(did, block)
      [] block.type \in {"block", "follow", "like", "repost"} ->
            << Recording(block.type, did, block.subjects) >>
      [] block.type = "profile" -> << Recording("profile", did, <<>>) >>
      [] OTHER -> <<>>

-----------------------------------------------------------------------------
(***************************************************************************)
(* handle. Matches are recorded last, and load the account.                *)
(***************************************************************************)
Deletes == {"like", "post", "repost", "block", "follow"}

\* Deletions of other records are recorded too, and count for nothing.
Deletions(message) ==
    LET deleting == SelectSeq(message.ops, LAMBDA op : op.action = "delete") IN
    [i \in DOMAIN deleting |->
        Recording(IF deleting[i].type \in Deletes THEN "deleted" ELSE "deleted_other",
                  message.did, <<>>)]

Hits(message) ==
    CASE message.op = "commit" ->
            LET records == Handled(message) IN
            SumFunction([i \in DOMAIN records |->
                            IF Matchable(records[i]) THEN records[i].hits ELSE 0])
      [] message.op = "identity" -> IF message.handle THEN message.hits ELSE 0
      [] OTHER -> 0

Changes(message) ==
    CASE message.op = "commit" ->
            LET records == Handled(message) IN
            Deletions(message)
            \o FlattenSeq([i \in DOMAIN records |->
                              RecordRecordings(message.did, records[i])])
      [] message.op = "identity" ->
            IF message.handle
              THEN << Recording("handle", message.did, <<>>), Loading(message.did) >>
              ELSE <<>>
      [] message.op = "account" ->
            << Recording(IF message.active THEN "active" ELSE "inactive",
                         message.did, <<>>) >>
      [] OTHER -> <<>>

\* The count is narrowed to unsigned short.
Work(message, unsignedShort) ==
    Changes(message)
    \o (IF Hits(message) = 0 THEN <<>>
        ELSE << Loading(message.did),
                [kind |-> "matches", did |-> message.did, subjects |-> <<>>,
                 count |-> Hits(message) % unsignedShort] >>)

-----------------------------------------------------------------------------
(***************************************************************************)
(* What the posts of a message are by their own fields, whatever becomes   *)
(* of them: replies, quotes, both, or else plain posts.                    *)
(***************************************************************************)
PostKinds == {"reply", "quote", "post"}

IsA(kind, record) ==
    /\ record.type = "post"
    /\ kind = "reply" => record.reply # <<>>
    /\ kind = "quote" => record.embed \in QuoteEmbeds
    /\ kind = "post" => record.reply = <<>> /\ record.embed \notin QuoteEmbeds

PostRecords(kind, message) ==
    IF message.op # "commit" THEN 0
    ELSE LET records == Handled(message) IN
         Cardinality({i \in DOMAIN records : IsA(kind, records[i])})
=============================================================================
