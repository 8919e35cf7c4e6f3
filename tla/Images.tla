------------------------------- MODULE Images -------------------------------
(***************************************************************************)
(* `figmog images` and the tool figmog_images (images.rs, cli/images.rs):  *)
(* a request names nodes; the answer is one render per node and one image  *)
(* per imageRef among those nodes' fills, from the images table where it   *)
(* can be, from the network otherwise.                                     *)
(*                                                                         *)
(* scan is one read transaction; then come at most one request for URLs    *)
(* per kind and one download and one write transaction per image, any of   *)
(* which may fail and between any two of which the process may die.  The   *)
(* process that answers has the store to itself, so pulls come between     *)
(* requests.  How old the downloaded bytes are is in Mirror.               *)
(***************************************************************************)
EXTENDS Lists

CONSTANTS
    Ids,        \* node ids
    RefSeq,     \* imageRefs, in the order of a BTreeSet
    Formats,    \* the (format, scale) pairs that renders are asked for in
    Filed,      \* each of them with the scale that is filed: in thousandths
    Versions,   \* file versions
    NoVersion,  \* the mirror is empty: its version reads as ""
    Fills,      \* version -> id -> the imageRefs of the node's fills
    Key,        \* image_key: an item's 64-bit hash, perhaps another's too
    Large,      \* items whose encoded form is over CONTENT_SIZE_CAP
    NotUtf8,    \* SVGs that are no UTF-8
    Garbled,    \* what from_utf8_lossy makes of one
    None,       \* no row, no bytes
    MaxRequest  \* bound on the ids of one request

Refs == ToSet(RefSeq)

Render(id, f) == [kind |-> "render", subject |-> id, format |-> f]

\* A fill's key has no format: its format is discovered on download.
Fill(r) == [kind |-> "fill", subject |-> r, format |-> ""]

Items == {Render(id, f) : id \in Ids, f \in Formats} \cup {Fill(r) : r \in Refs}

\* What the images table tells of an item: not its scale beyond thousandths.
\* The API is asked for the scale as it came.
Filing(i) == IF i.kind = "render" THEN Render(i.subject, Filed[i.format]) ELSE i

KeyOf(i) == Key[Filing(i)]

Row == [item: Items, tag: Versions \cup {NoVersion}, bytes: Items]

ASSUME ImagesAssumption ==
    /\ RefSeq \in Seq(Refs) /\ Ids \cap Refs = {}
    /\ Fills \in [Versions \cup {NoVersion} -> [Ids -> SUBSET Refs]]
    /\ \A id \in Ids : Fills[NoVersion][id] = {}
    /\ Filed \in [Formats -> Formats]
    /\ DOMAIN Key = Items
    /\ Large \subseteq Items /\ NotUtf8 \subseteq Items
    /\ NoVersion \notin Versions /\ None \notin Items \cup Row \cup {Garbled}
    /\ MaxRequest \in Nat

Keys == {KeyOf(i) : i \in Items}

VARIABLES
    version,  \* the mirror's version
    rows,     \* the images table: key -> ImageBlobRec
    token,    \* FIGMA_TOKEN is set for the running process
    stage,    \* where resolve is
    req,      \* the request: normalized ids, format, version, fill_refs
    answer,   \* render_hits and fill_hits
    fetched   \* what was filed of the images downloaded since the version changed

vars == <<version, rows, token, stage, req, answer, fetched>>

Kinds == {"render", "fill"}
NoRequest == [ids |-> <<>>, format |-> "", tag |-> NoVersion, refs |-> {}]
Statuses == {"miss", "linked", "cached", "fetched", "error"}

TypeOK ==
    /\ version \in Versions \cup {NoVersion}
    /\ rows \in [Keys -> Row \cup {None}]
    /\ token \in BOOLEAN
    /\ stage \in Kinds \cup {"idle", "reply"}
    /\ req.ids \in Seq(Ids) /\ IsInjective(req.ids)
    /\ req.format \in Formats \cup {""} /\ req.refs \subseteq Refs
    /\ req.tag \in Versions \cup {NoVersion}
    /\ DOMAIN answer \subseteq Items
    /\ \A i \in DOMAIN answer :
          answer[i] \in [status: Statuses, bytes: Items \cup {None}]
    /\ fetched \subseteq Items

Init ==
    /\ version = NoVersion
    /\ rows = [k \in Keys |-> None]
    /\ token \in BOOLEAN
    /\ stage = "idle"
    /\ req = NoRequest
    /\ answer = <<>>
    /\ fetched = {}

-----------------------------------------------------------------------------
(* scan *)

\* normalize_ids: the first occurrence of each.
NormalizeIds(raw) ==
    FoldLeft(LAMBDA ids, id : IF Contains(ids, id) THEN ids ELSE Append(ids, id),
             <<>>, raw)

\* Mutant: the hash is trusted.
MatchesKeyOnly(row, i) == TRUE

\* matches_identity: the fields of the row, and so the rounded scale.
MatchesIdentity(row, i) == row.item = Filing(i)

\* Mutant: the version is not compared.
HitAnyVersion(i) == rows[KeyOf(i)] # None /\ MatchesIdentity(rows[KeyOf(i)], i)

Hit(i) ==
    LET row == rows[KeyOf(i)]
    IN  row # None /\ row.tag = version /\ MatchesIdentity(row, i)

Miss == [status |-> "miss", bytes |-> None]
Error == [status |-> "error", bytes |-> None]

\* normalize_ids and scan, in one read transaction.
Scan(raw, f) ==
    /\ stage = "idle"
    /\ LET ids == NormalizeIds(raw)
           refs == UNION {Fills[version][id] : id \in ToSet(ids)}
           wanted == {Render(id, f) : id \in ToSet(ids)} \cup {Fill(r) : r \in refs}
       IN  /\ req' = [ids |-> ids, format |-> f, tag |-> version, refs |-> refs]
           /\ answer' = [i \in wanted |->
                 IF Hit(i) THEN [status |-> "cached", bytes |-> rows[KeyOf(i)].bytes]
                           ELSE Miss]
    /\ stage' = "render"
    /\ UNCHANGED <<version, rows, token, fetched>>

-----------------------------------------------------------------------------
(* resolve: the renders, then the fills *)

InState(kind, status) ==
    {i \in DOMAIN answer : i.kind = kind /\ answer[i].status = status}

Misses(kind) == InState(kind, "miss")

\* images_render or file_image_fills, once for every miss of the kind.  The
\* map it returns may lack any of them; a failed request answers for none.
AskUrls(kind) ==
    /\ stage = kind /\ token /\ Misses(kind) # {}
    /\ \E urls \in SUBSET Misses(kind) :
          answer' = [i \in DOMAIN answer |->
              CASE i \in urls                 -> [Miss EXCEPT !.status = "linked"]
                [] i \in Misses(kind) \ urls  -> Error
                [] OTHER                      -> answer[i]]
    /\ UNCHANGED <<version, rows, token, stage, req, fetched>>

\* No request is made without a token; hits are answered all the same.
NoToken(kind) ==
    /\ stage = kind /\ ~token /\ Misses(kind) # {}
    /\ answer' = [i \in DOMAIN answer |-> IF i \in Misses(kind) THEN Error ELSE answer[i]]
    /\ UNCHANGED <<version, rows, token, stage, req, fetched>>

\* The answer's order: nodes as requested, then refs as a BTreeSet has them.
Order ==
    [k \in DOMAIN req.ids |-> Render(req.ids[k], req.format)] \o
    LET refs == Chosen(RefSeq, req.refs)
    IN  [k \in DOMAIN refs |-> Fill(refs[k])]

\* The first image of the batch still to download.
NextDownload(kind) == Head(Chosen(Order, InState(kind, "linked")))

Downloading(kind) ==
    stage = kind /\ Misses(kind) = {} /\ InState(kind, "linked") # {}

\* store_image: a write transaction for each image, under scan's version.
StoreImage(i) ==
    rows' = [rows EXCEPT ![KeyOf(i)] = [item |-> Filing(i), tag |-> req.tag, bytes |-> i]]

Download(kind) ==
    /\ Downloading(kind)
    /\ LET i == NextDownload(kind)
       IN  /\ StoreImage(i)
           /\ answer' = [answer EXCEPT ![i] = [status |-> "fetched", bytes |-> i]]
           /\ fetched' = fetched \cup {Filing(i)}
    /\ UNCHANGED <<version, token, stage, req>>

\* One download that fails is that item's error and no other's.
DownloadFails(kind) ==
    /\ Downloading(kind)
    /\ answer' = [answer EXCEPT ![NextDownload(kind)] = Error]
    /\ UNCHANGED <<version, rows, token, stage, req, fetched>>

BatchDone(kind) ==
    /\ stage = kind /\ Misses(kind) = {} /\ InState(kind, "linked") = {}
    /\ stage' = IF kind = "render" THEN "fill" ELSE "reply"
    /\ UNCHANGED <<version, rows, token, req, answer, fetched>>

Out == [k \in DOMAIN Order |->
          [item |-> Order[k], error |-> answer[Order[k]].status = "error",
           bytes |-> answer[Order[k]].bytes]]

Reply ==
    /\ stage = "reply"
    /\ stage' = "idle" /\ req' = NoRequest /\ answer' = <<>>
    /\ UNCHANGED <<version, rows, token, fetched>>

-----------------------------------------------------------------------------
(* The relay over the socket: to_mcp_content and from_socket_result *)

\* An SVG travels as text, any other format as base64.
Encoded(bytes) == IF bytes \in NotUtf8 THEN Garbled ELSE bytes

\* The blocks after the manifest: none for an error, a note without mimeType
\* for an item over the cap.
Content(out) ==
    LET good == Chosen(out, {o \in ToSet(out) : ~o.error})
    IN  [k \in DOMAIN good |->
           [subject |-> good[k].item.subject,
            payload |-> IF good[k].bytes \in Large THEN None ELSE Encoded(good[k].bytes)]]

\* Mutant: blocks are matched to manifest rows by position.
PayloadAt(content, out, k) == IF k \in DOMAIN content THEN content[k].payload ELSE None

\* The first block that carries the row's tag and a mimeType.
Payload(content, out, k) ==
    LET mine == Chosen(content, {b \in ToSet(content) : /\ b.subject = out[k].item.subject
                                                        /\ b.payload # None})
    IN  IF mine = <<>> THEN None ELSE Head(mine).payload

\* What the command writes to disk for row k, over the socket.
Relayed(out, k) == Payload(Content(out), out, k)

-----------------------------------------------------------------------------
(* Pulls and restarts, between requests *)

\* Mutant: every row goes, whatever its version.
EvictAll(v) == [k \in Keys |-> None]

Evict(v) == [k \in Keys |-> IF rows[k] # None /\ rows[k].tag # v THEN None ELSE rows[k]]

\* A pull, possibly of a saved older response; `whole` unless the process
\* dies between the sync and the eviction.
Pull(v, whole) ==
    /\ stage = "idle"
    /\ version' = v
    /\ rows' = IF whole THEN Evict(v) ELSE rows
    /\ fetched' = IF v = version THEN fetched ELSE {}
    /\ UNCHANGED <<token, stage, req, answer>>

\* The process dies, or ends; the next one may have a token or none.
Restart ==
    /\ stage' = "idle" /\ req' = NoRequest /\ answer' = <<>>
    /\ token' \in BOOLEAN
    /\ UNCHANGED <<version, rows, fetched>>

Resolve(kind) ==
    \/ AskUrls(kind) \/ NoToken(kind)
    \/ Download(kind) \/ DownloadFails(kind) \/ BatchDone(kind)

Next ==
    \/ \E raw \in BoundedSeq(Ids, MaxRequest), f \in Formats : Scan(raw, f)
    \/ \E kind \in Kinds : Resolve(kind)
    \/ Reply
    \/ \E v \in Versions, whole \in BOOLEAN : Pull(v, whole)
    \/ Restart

Spec == Init /\ [][Next]_vars

-----------------------------------------------------------------------------
(* Properties *)

\* No item is answered with another's bytes, though their hashes may be the
\* same and requests interleave with downloads; but two scales that round to
\* the same thousandth are one item to the table (images.rs matches_identity).
OwnBytes ==
    \A i \in DOMAIN answer :
        answer[i].bytes # None => Filing(answer[i].bytes) = Filing(i)

\* And no item is answered with the bytes of another scale (images.rs: "a
\* colliding row must read as a miss, not get served as a different item's
\* bytes").
ExactBytes == \A i \in DOMAIN answer : answer[i].bytes \in {i, None}

Alone(i) == \A j \in Items : KeyOf(j) = KeyOf(i) => Filing(j) = Filing(i)

\* The table has the item for the mirror's version.
Held(i) ==
    LET row == rows[KeyOf(i)]
    IN  row # None /\ row.item = Filing(i) /\ row.tag = version

\* When the answer is ready, what it has bytes for is what the table now has
\* for the mirror's version, whatever failed on the way: no error is cached,
\* no download is lost, no other version is served (images.rs resolve).
AnsweredIffCached ==
    stage = "reply" => \A i \in DOMAIN answer : Alone(i) =>
        IF Held(i) THEN answer[i].bytes = rows[KeyOf(i)].bytes
                   ELSE answer[i].status = "error"

\* No request to the API covers an image already downloaded at the mirror's
\* version, partial failures, crashes and repeated pulls included: the image
\* endpoints are the scarcest (images.rs; SPEC 15).
NothingPaidTwice ==
    [][\A kind \in Kinds : AskUrls(kind) =>
          \A i \in Misses(kind) : Alone(i) => Filing(i) \notin fetched]_vars

\* A command that is answered over the socket writes the files it would have
\* written itself, except those over the cap, and any SVG that is no UTF-8 as
\* from_utf8_lossy has it (cli/images.rs, to_mcp_content).
RelayFaithful ==
    stage = "reply" => \A k \in DOMAIN Out :
        Relayed(Out, k) = IF Out[k].bytes \in Large THEN None ELSE Encoded(Out[k].bytes)
=============================================================================
