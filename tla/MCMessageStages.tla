-------------------------- MODULE MCMessageStages --------------------------
\* Messages with a text, up to three attachments of up to two lines; inline
\* ones come with an HTML text.
EXTENDS MessageStages

MCAttachments == [inline : BOOLEAN, lines : {0, 2}]
MCMessages ==
  {m \in [plain : BOOLEAN, html : BOOLEAN,
          attachments : UNION {[1..n -> MCAttachments] : n \in 0..3}] :
     /\ m.plain \/ m.html
     /\ RequiresRelated(m) => m.html}
=============================================================================
