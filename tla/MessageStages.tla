--------------------------- MODULE MessageStages ---------------------------
(***************************************************************************)
(* How the libesmtp provider reads a message out, piece by piece:          *)
(* messageDataCallback() of src/src/LibESMTPProvider.cc, which libesmtp    *)
(* calls until it returns nothing, and getMessageData(), which does so for *)
(* the signature (SMTPSession::signMessage()).  The worker threads of a    *)
(* slave send messages made from one MessageDetails: its attachments are   *)
(* loaded and encoded when first needed, and the piece of an attachment    *)
(* that is returned is in a global buffer.                                 *)
(*                                                                         *)
(* Tokens are those of MessageTree; line breaks between parts are left     *)
(* out.  A transfer may be cut by the server at any point, the session is  *)
(* then started again with the next server.                                *)
(***************************************************************************)
EXTENDS MessageTree

CONSTANTS
  Threads,       \* worker threads
  Messages,      \* the messages to choose from
  MutexSessions, \* GIVEMAIL_MUTEX_SESSIONS is set
  MaxCuts        \* bound on the transfers that are cut, per thread

ASSUME MessageStagesAssumption ==
  /\ MutexSessions \in BOOLEAN
  /\ MaxCuts \in Nat
  /\ \A m \in Messages : /\ m.plain \in BOOLEAN /\ m.html \in BOOLEAN
                         /\ \A a \in DOMAIN m.attachments :
                              /\ m.attachments[a].inline \in BOOLEAN
                              /\ m.attachments[a].lines \in Nat

NoThread == "none"
ASSUME NoThreadAssumption == NoThread \notin Threads

VARIABLES
  message,  \* what the campaign sends
  loaded,   \* per attachment: "no", "length" (m_contentLength only), "yes"
  encoded,  \* per attachment: "no", "pointer" (m_pEncodedContent only), "yes"
  buffer,   \* g_attachmentData
  mutex,    \* SMTPSession::m_mutex: the thread that holds it
  phase,    \* per thread: what it does with its message
  stage,    \* per thread: m_stage, a number of the list of stages
  current,  \* per thread: m_currentAttachment
  position, \* per thread: m_encodedPos, in lines
  more,     \* per thread: m_hasMoreLines
  returned, \* per thread: what the callback returned, not copied yet
  stream,   \* per thread: what was copied since the message was rewound
  cuts      \* per thread: transfers that were cut

shared  == <<message, loaded, encoded>>
reading == <<stage, current, position, more>>
vars == <<shared, buffer, mutex, phase, reading, returned, stream, cuts>>

\* The stages, in order.
Stages == <<"EXTRA_HEADERS", "START_MIXED", "START_ALT", "START_PLAIN", "PLAIN",
            "END_PLAIN", "ALT_TRANSITION", "START_RELATED", "START_HTML", "HTML",
            "END_HTML", "START_INLINE", "INLINE_HEADERS", "INLINE_LINE",
            "INLINE_LINE_END", "END_INLINE", "NEXT_INLINE", "END_RELATED", "END_ALT",
            "START_ATTACHMENT", "ATTACHMENT_HEADERS", "ATTACHMENT_LINE",
            "ATTACHMENT_LINE_END", "END_ATTACHMENT", "NEXT_ATTACHMENT", "END_MIXED", "END">>
Number(name) == CHOOSE i \in DOMAIN Stages : Stages[i] = name

StartInline     == Number("START_INLINE")
StartAttachment == Number("START_ATTACHMENT")
NextInline      == Number("NEXT_INLINE")
EndStage        == Number("END")
LineStages      == {Number("INLINE_LINE"), Number("ATTACHMENT_LINE")}
LineEndStages   == {Number("INLINE_LINE_END"), Number("ATTACHMENT_LINE_END")}
PartEndStages   == {Number("END_INLINE"), Number("END_ATTACHMENT")}
NextStages      == {NextInline, Number("NEXT_ATTACHMENT")}

\* Values of "returned": nothing to copy, a line break, the global buffer, the
\* headers of an inline part, whose memory was freed; or a token.
Nothing == <<"nothing", "", 0>>
Break   == <<"break", "", 0>>
Global  == <<"global", "", 0>>
Freed(a) == <<"freed", a, 0>>
Garbage == <<"garbage", "", 0>>

Init ==
  /\ message \in Messages
  /\ loaded = [a \in DOMAIN message.attachments |-> "no"]
  /\ encoded = [a \in DOMAIN message.attachments |-> "no"]
  /\ buffer = Nothing /\ mutex = NoThread
  /\ phase = [t \in Threads |-> "load"]
  /\ stage = [t \in Threads |-> 1]
  /\ current = [t \in Threads |-> 0]
  /\ position = [t \in Threads |-> 0]
  /\ more = [t \in Threads |-> FALSE]
  /\ returned = [t \in Threads |-> Nothing]
  /\ stream = [t \in Threads |-> <<>>]
  /\ cuts = [t \in Threads |-> 0]
----------------------------------------------------------------------------
\* loadAttachments(), called when the message is created: the next attachment
\* that has no length gets one, then its content.  Empty files have none.
NotLoaded ==
  {a \in DOMAIN loaded : loaded[a] = "no" /\ message.attachments[a].lines > 0}

LoadLength(t) ==
  /\ phase[t] = "load" /\ NotLoaded # {}
  /\ loaded' = [loaded EXCEPT ![Min(NotLoaded)] = "length"]
  /\ phase' = [phase EXCEPT ![t] = "loading"]
  /\ current' = [current EXCEPT ![t] = Min(NotLoaded)]
  /\ UNCHANGED <<message, encoded, buffer, mutex, stage, position, more, returned, stream, cuts>>

LoadContent(t) ==
  /\ phase[t] = "loading"
  /\ loaded' = [loaded EXCEPT ![current[t]] = "yes"]
  /\ phase' = [phase EXCEPT ![t] = "load"]
  /\ current' = [current EXCEPT ![t] = 0]
  /\ UNCHANGED <<message, encoded, buffer, mutex, stage, position, more, returned, stream, cuts>>

\* The callback without a length: the message is read from the start again.
Rewind(t) ==
  /\ stage' = [stage EXCEPT ![t] = 1]
  /\ current' = [current EXCEPT ![t] = 0]
  /\ position' = [position EXCEPT ![t] = 0]
  /\ UNCHANGED more

\* signMessage(): getMessageData(), whether the message can be signed or not.
Sign(t) ==
  /\ phase[t] = "load" /\ NotLoaded = {}
  /\ phase' = [phase EXCEPT ![t] = "sign"]
  /\ Rewind(t)
  /\ stream' = [stream EXCEPT ![t] = <<>>]
  /\ UNCHANGED <<shared, buffer, mutex, returned, cuts>>

\* dispatchMessages(): the session is started, under the mutex if there is one.
Send(t) ==
  /\ phase[t] = "queued"
  /\ MutexSessions => mutex = NoThread
  /\ mutex' = IF MutexSessions THEN t ELSE mutex
  /\ phase' = [phase EXCEPT ![t] = "send"]
  /\ Rewind(t)
  /\ stream' = [stream EXCEPT ![t] = <<>>]
  /\ UNCHANGED <<shared, buffer, returned, cuts>>

\* The server closes the connection: the message is sent to another one.
Cut(t) ==
  /\ phase[t] = "send" /\ cuts[t] < MaxCuts
  /\ cuts' = [cuts EXCEPT ![t] = @ + 1]
  /\ Rewind(t)
  /\ stream' = [stream EXCEPT ![t] = <<>>]
  /\ returned' = [returned EXCEPT ![t] = Nothing]
  /\ UNCHANGED <<shared, buffer, mutex, phase>>
----------------------------------------------------------------------------
\* getAttachmentLine(): the attachment a stage is about, and whether it has
\* another line.  Its content must be there, and be encoded.
Inlined(s) == s <= NextInline
Has(t, s) == current[t] < AttachmentCount(message, Inlined(s))
Current(t, s) == Attachment(message, current[t], Inlined(s))

CanEncode(t, s) ==
  /\ Has(t, s)
  /\ loaded[Current(t, s)] = "yes"
  /\ encoded[Current(t, s)] = "no"
HasLine(t, s) ==
  /\ Has(t, s)
  /\ loaded[Current(t, s)] = "yes"
  /\ encoded[Current(t, s)] = "yes"
  /\ position[t] < message.attachments[Current(t, s)].lines

\* What the stages output.  The others fall through to the next one.
PartStages(inline) ==
  IF inline THEN {"START_INLINE", "INLINE_HEADERS", "INLINE_LINE_END", "END_INLINE"}
  ELSE {"START_ATTACHMENT", "ATTACHMENT_HEADERS", "ATTACHMENT_LINE_END", "END_ATTACHMENT"}
TextsAndParts(m) ==
  {"EXTRA_HEADERS", "END"}
    \cup (IF RequiresMixed(m) THEN {"START_MIXED", "END_MIXED"} ELSE {})
    \cup (IF RequiresAlternative(m) THEN {"START_ALT", "ALT_TRANSITION", "END_ALT"} ELSE {})
    \cup (IF m.plain THEN {"START_PLAIN", "PLAIN"} ELSE {})
    \cup (IF m.plain /\ (m.html \/ RequiresRelated(m) \/ RequiresMixed(m))
          THEN {"END_PLAIN"} ELSE {})
    \cup (IF m.html /\ RequiresRelated(m) THEN {"START_RELATED"} ELSE {})
    \cup (IF m.html THEN {"START_HTML", "HTML"} ELSE {})
    \cup (IF m.html /\ (m.plain \/ RequiresRelated(m) \/ RequiresMixed(m))
          THEN {"END_HTML"} ELSE {})
    \cup (IF RequiresRelated(m) THEN PartStages(TRUE) \cup {"END_RELATED"} ELSE {})
    \cup (IF RequiresMixed(m) THEN PartStages(FALSE) ELSE {})

Outputs(t, s, fixed) ==
  CASE s \in LineStages -> HasLine(t, s)
    [] s \in NextStages -> Has(t, s)
    [] OTHER -> Stages[s] \in fixed

\* The stage the callback stops at.
Reached(t) ==
  LET fixed == TextsAndParts(message)
  IN CHOOSE s \in stage[t]..EndStage :
       /\ Outputs(t, s, fixed)
       /\ \A earlier \in stage[t]..(s - 1) : ~Outputs(t, earlier, fixed)
FellThroughLine(t) == \E s \in LineStages : stage[t] <= s /\ s < Reached(t)

\* What it returns there.
Output(t, s) ==
  LET name == Stages[s] IN
  CASE name = "EXTRA_HEADERS"    -> Headers
    [] name = "START_MIXED"      -> Boundary("open", "mixed")
    [] name = "START_ALT"        -> Boundary("open", "alternative")
    [] name = "PLAIN"            -> Text("plain")
    [] name = "ALT_TRANSITION"   -> Boundary("next", "alternative")
    [] name = "START_RELATED"    -> Boundary("open", "related")
    [] name = "HTML"             -> Text("html")
    [] name = "START_INLINE"     -> Boundary("next", "related")
    [] name = "INLINE_HEADERS"   -> Freed(Current(t, s))
    [] name = "END_RELATED"      -> Boundary("close", "related")
    [] name = "END_ALT"          -> Boundary("close", "alternative")
    [] name = "START_ATTACHMENT" -> Boundary("next", "mixed")
    [] name = "ATTACHMENT_HEADERS" -> Global
    [] s \in LineStages          -> Global
    [] name = "END_MIXED"        -> Boundary("close", "mixed")
    [] name = "END"              -> Nothing
    [] OTHER                     -> Break

Buffered(t, s) ==
  IF s \in LineStages THEN FileLine(Current(t, s), position[t] + 1)
  ELSE IF Stages[s] = "ATTACHMENT_HEADERS" THEN FileHeaders(Current(t, s))
  ELSE buffer

\* Where the next call starts: some stages jump back to an earlier one.
\* Mutant: the headers are output again for each line.
JumpToStart(t, s, hasMore, next) ==
  CASE s \in LineEndStages /\ hasMore -> s - 2
    [] s \in PartEndStages
         /\ next >= AttachmentCount(message, Inlined(s)) -> s + 2
    [] s \in NextStages -> IF Inlined(s) THEN StartInline ELSE StartAttachment
    [] OTHER -> s + 1
NextStage(t, s, hasMore, next) ==
  CASE s \in LineEndStages /\ hasMore -> s - 1
    [] s \in PartEndStages
         /\ next >= AttachmentCount(message, Inlined(s)) -> s + 2
    [] s \in NextStages -> IF Inlined(s) THEN StartInline ELSE StartAttachment
    [] OTHER -> s + 1

\* m_currentAttachment: counted when a part ends, reset after the inline parts.
NextAttachment(t, s) ==
  CASE s \in PartEndStages -> current[t] + 1
    [] Stages[s] = "END_RELATED" -> 0
    [] OTHER -> current[t]
NextPosition(t, s) ==
  CASE s \in PartEndStages -> 0
    [] s \in LineStages -> position[t] + 1
    [] OTHER -> position[t]
\* m_hasMoreLines: reset by getAttachmentLine(), even if there is no line.
\* Mutant: it is set by every line, and not reset.
StaleMore(t, s) == s \in LineStages \/ more[t]
NextMore(t, s) ==
  IF s \in LineStages
  THEN position[t] + 1 < message.attachments[Current(t, s)].lines
  ELSE more[t] /\ ~FellThroughLine(t)
----------------------------------------------------------------------------
Reading(t) == phase[t] \in {"sign", "send"} /\ returned[t] = Nothing
MustEncode(t) == stage[t] \in LineStages /\ CanEncode(t, stage[t])

\* Encoding sets the pointer first, then the length.
Encode(t) ==
  /\ Reading(t) /\ MustEncode(t)
  /\ encoded' = [encoded EXCEPT ![Current(t, stage[t])] = "pointer"]
  /\ phase' = [phase EXCEPT ![t] = IF @ = "sign" THEN "encodeSign" ELSE "encodeSend"]
  /\ UNCHANGED <<message, loaded, buffer, mutex, reading, returned, stream, cuts>>

EncodedLength(t) ==
  /\ phase[t] \in {"encodeSign", "encodeSend"}
  /\ encoded' = [encoded EXCEPT ![Current(t, stage[t])] = "yes"]
  /\ phase' = [phase EXCEPT ![t] = IF @ = "encodeSign" THEN "sign" ELSE "send"]
  /\ UNCHANGED <<message, loaded, buffer, mutex, reading, returned, stream, cuts>>

\* messageDataCallback().
Callback(t) ==
  /\ Reading(t) /\ ~MustEncode(t)
  /\ Reached(t) < EndStage
  /\ LET s == Reached(t) IN
     /\ returned' = [returned EXCEPT ![t] = Output(t, s)]
     /\ buffer' = Buffered(t, s)
     /\ current' = [current EXCEPT ![t] = NextAttachment(t, s)]
     /\ position' = [position EXCEPT ![t] = NextPosition(t, s)]
     /\ more' = [more EXCEPT ![t] = NextMore(t, s)]
     /\ stage' = [stage EXCEPT ![t] = NextStage(t, s, NextMore(t, s), NextAttachment(t, s))]
  /\ UNCHANGED <<shared, mutex, phase, stream, cuts>>

\* The caller copies what was returned: from the global buffer, as it is now;
\* from memory that was freed, what is left there.
Copied(t) ==
  CASE returned[t] = Break -> {<<>>}
    [] returned[t] = Global -> {<<buffer>>}
    [] returned[t][1] = "freed" -> {<<FileHeaders(returned[t][2])>>, <<Garbage>>}
    [] OTHER -> {<<returned[t]>>}

Copy(t) ==
  /\ returned[t] # Nothing
  /\ \E tokens \in Copied(t) : stream' = [stream EXCEPT ![t] = @ \o tokens]
  /\ returned' = [returned EXCEPT ![t] = Nothing]
  /\ UNCHANGED <<shared, buffer, mutex, phase, reading, cuts>>

\* The callback returns nothing: the message was read.
EndOfMessage(t) ==
  /\ Reading(t) /\ ~MustEncode(t)
  /\ Reached(t) = EndStage
  /\ stage' = [stage EXCEPT ![t] = EndStage]
  /\ more' = [more EXCEPT ![t] = NextMore(t, EndStage)]
  /\ phase' = [phase EXCEPT ![t] = IF @ = "sign" THEN "signed" ELSE "sent"]
  /\ mutex' = IF mutex = t THEN NoThread ELSE mutex
  /\ UNCHANGED <<shared, buffer, current, position, returned, stream, cuts>>

\* Signed or not, the message is queued.
Queue(t) ==
  /\ phase[t] = "signed"
  /\ phase' = [phase EXCEPT ![t] = "queued"]
  /\ UNCHANGED <<shared, buffer, mutex, reading, returned, stream, cuts>>

Step(t) == LoadLength(t) \/ LoadContent(t) \/ Sign(t) \/ Send(t) \/ Encode(t)
             \/ EncodedLength(t) \/ Callback(t) \/ Copy(t) \/ EndOfMessage(t) \/ Queue(t)

Next == \E t \in Threads : Step(t) \/ Cut(t)
Spec == Init /\ [][Next]_vars

\* Threads go on; servers need not cut transfers.
FairSpec == Spec /\ \A t \in Threads : WF_vars(Step(t))
----------------------------------------------------------------------------
Complete(t) == phase[t] \in {"signed", "sent"}

\* Both providers make the same message of the same parts: what is read out,
\* for the signature and for the server, after any number of transfers that
\* were cut, is what libetpan would write.  The headers of inline parts may
\* be damaged: the callback returns memory it has freed.
Same(token, wanted) == token = wanted \/ token = Garbage
SameMessage ==
  \A t \in Threads : Complete(t) =>
    LET wanted == Serialize(Tree(message, FALSE, "none", TRUE))
    IN /\ Len(stream[t]) = Len(wanted)
       /\ \A i \in DOMAIN wanted : Same(stream[t][i], wanted[i])

\* libetpan's tree has every text and every line of every attachment once,
\* whichever of related and alternative comes first, in a message and in a
\* delivery report.  (The message does not change: it is looked at once.)
NothingLost == (\A t \in Threads : phase[t] = "load") =>
  \A relatedFirst \in BOOLEAN, report \in {"none", "delivery"} :
    \A token \in Wanted(message) :
      Occurrences(Serialize(Tree(message, relatedFirst, report, TRUE)), token) = 1

\* Every message is read to its end: the stages jump back only finitely often.
StreamEnds == \A t \in Threads : []<>(phase[t] = "sent")
=============================================================================
