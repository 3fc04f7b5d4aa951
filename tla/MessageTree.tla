---------------------------- MODULE MessageTree ----------------------------
(***************************************************************************)
(* The parts of a message, and the MIME tree that the libetpan provider    *)
(* builds from them: buildMessage() of src/src/LibETPANProvider.cc, with   *)
(* the attachments of src/src/MessageDetails.cc.                           *)
(*                                                                         *)
(* A message says whether it has a plain and an HTML text, and lists its   *)
(* attachments: inline or not, and their length in lines once encoded.  A  *)
(* stream is a sequence of tokens: the headers, a text, a line of an       *)
(* attachment, a boundary.                                                 *)
(***************************************************************************)
EXTENDS Integers, Sequences, FiniteSets, SequencesExt

\* MessageDetails::getAttachmentCount() and getAttachment(): attachments are
\* numbered among those that are inline, or among those that are not.
Numbers(m, inline) ==
  SelectSeq([a \in DOMAIN m.attachments |-> a],
            LAMBDA a : m.attachments[a].inline = inline)
AttachmentCount(m, inline) == Len(Numbers(m, inline))
Attachment(m, n, inline) == Numbers(m, inline)[n + 1]

RequiresMixed(m)       == AttachmentCount(m, FALSE) > 0
RequiresAlternative(m) == m.plain /\ m.html
RequiresRelated(m)     == AttachmentCount(m, TRUE) > 0

\* The tokens of an attachment.
FileHeaders(a)  == <<"file", a, 0>>
FileLine(a, i)  == <<"file", a, i>>
Boundary(at, kind) == <<at, kind, 0>>
Text(name)      == <<"text", name, 0>>
Headers         == <<"headers", "", 0>>
----------------------------------------------------------------------------
\* A part of the tree: a leaf has tokens, a multipart has parts.
Leaf(tokens) == [kind |-> "leaf", tokens |-> tokens, parts |-> <<>>]
Multipart(kind, parts) == [kind |-> kind, tokens |-> <<>>, parts |-> parts]

PlainPart == Leaf(<<Text("plain")>>)
HtmlPart  == Leaf(<<Text("html")>>)
FilePart(m, a) ==
  Leaf(<<FileHeaders(a)>> \o [i \in 1..m.attachments[a].lines |-> FileLine(a, i)])

\* attachFileParts(): one part per attachment.  buildFilePart() makes none of a
\* file whose content type is not known (a name without an extension).
\* Mutant: the first one is left out.
AllButFirst(m, inline, typed) ==
  IF typed THEN [n \in 1..(AttachmentCount(m, inline) - 1) |->
                   FilePart(m, Numbers(m, inline)[n + 1])]
  ELSE <<>>
FileParts(m, inline, typed) ==
  IF typed THEN [n \in 1..AttachmentCount(m, inline) |->
                   FilePart(m, Numbers(m, inline)[n])]
  ELSE <<>>
----------------------------------------------------------------------------
\* The texts: alternatives of each other; inline attachments are related to the
\* HTML text, or, with GIVEMAIL_RELATED_FIRST, to both texts.
RelatedHtml(m, typed) ==
  IF RequiresRelated(m)
  THEN Multipart("related", <<HtmlPart>> \o FileParts(m, TRUE, typed))
  ELSE HtmlPart

Body(m, typed) ==
  CASE RequiresAlternative(m) ->
         <<Multipart("alternative", <<PlainPart, RelatedHtml(m, typed)>>)>>
    [] m.html /\ ~m.plain -> <<RelatedHtml(m, typed)>>
    [] m.plain /\ ~m.html -> <<PlainPart>>
    [] ~m.plain /\ ~m.html -> <<>>

RelatedFirstBody(m, typed) ==
  CASE ~RequiresRelated(m) -> Body(m, typed)
    [] RequiresRelated(m) /\ RequiresAlternative(m) ->
         <<Multipart("related", <<Multipart("alternative", <<PlainPart, HtmlPart>>)>>
                                  \o FileParts(m, TRUE, typed))>>
    [] RequiresRelated(m) /\ m.html /\ ~m.plain ->
         <<Multipart("related", <<HtmlPart>> \o FileParts(m, TRUE, typed))>>
    [] RequiresRelated(m) /\ m.plain /\ ~m.html ->
         IF RequiresMixed(m) THEN <<Multipart("related", <<>>), PlainPart>>
         ELSE <<Multipart("related", <<PlainPart>>)>>
    [] RequiresRelated(m) /\ ~m.plain /\ ~m.html -> <<Multipart("related", <<>>)>>

Content(m, relatedFirst, typed) ==
  LET body == IF relatedFirst THEN RelatedFirstBody(m, typed) ELSE Body(m, typed)
  IN IF RequiresMixed(m)
     THEN <<Multipart("mixed", body \o FileParts(m, FALSE, typed))>>
     ELSE body

\* Reports: a delivery status comes with the message as a part of type
\* message/rfc822, a read notification with its plain text only.
ReportOf(m, report, content) ==
  CASE report = "none" -> content
    [] report = "delivery" ->
         <<Multipart("report", <<Leaf(<<Text("status")>>),
                                 Multipart("message", content)>>)>>
    [] report = "read" ->
         <<Multipart("report", (IF m.plain THEN <<PlainPart>> ELSE <<>>)
                                 \o <<Leaf(<<Text("notification")>>)>>)>>

Tree(m, relatedFirst, report, typed) ==
  Multipart("message", ReportOf(m, report, Content(m, relatedFirst, typed)))
----------------------------------------------------------------------------
\* serialize() (mailmime_write_mem() of libetpan): multiparts open, separate and
\* close their parts, a message only has its headers.
RECURSIVE Serialize(_)
Serialize(part) ==
  LET inner == FoldLeft(LAMBDA done, p : done \o (IF done = <<>> \/ part.kind = "message"
                          THEN <<>> ELSE <<Boundary("next", part.kind)>>) \o Serialize(p),
                        <<>>, part.parts)
  IN CASE part.kind = "leaf"    -> part.tokens
       [] part.kind = "message" -> <<Headers>> \o inner
       [] OTHER -> <<Boundary("open", part.kind)>> \o inner
                     \o <<Boundary("close", part.kind)>>

\* What must be in the stream: the texts and every line of every attachment.
Wanted(m) ==
  (IF m.plain THEN {Text("plain")} ELSE {}) \cup (IF m.html THEN {Text("html")} ELSE {})
    \cup {FileHeaders(a) : a \in DOMAIN m.attachments}
    \cup UNION {{FileLine(a, i) : i \in 1..m.attachments[a].lines} : a \in DOMAIN m.attachments}

Occurrences(stream, token) == Cardinality({i \in DOMAIN stream : stream[i] = token})
=============================================================================
