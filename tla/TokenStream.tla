---------------------------- MODULE TokenStream ----------------------------
(***************************************************************************)
(* What a scanner promises the parser that reads its tokens after it has   *)
(* finished: the tokens come one by one, each starting no earlier than the *)
(* one before it ended, and a text is accepted only with all its end marks *)
(* behind the last token, which is what lets the parser look ahead without *)
(* a bounds check.                                                         *)
(***************************************************************************)
EXTENDS Naturals, Sequences

CONSTANTS Position,   \* the positions of a text
          EndMarks    \* how many end marks an accepted text carries

VARIABLES spans,      \* the tokens so far: records [from, to, mark]
          verdict     \* "open", "accepted" or "rejected"

streamVars == <<spans, verdict>>

Span == [from : Position, to : Position, mark : BOOLEAN]

LastEnd == IF spans = <<>> THEN 0 ELSE spans[Len(spans)].to

(* Is the token at position i of the stream an end mark?                   *)
Marked(i) == i \in 1 .. Len(spans) /\ spans[i].mark

StreamInit == spans = <<>> /\ verdict = "open"

(* One more token, whatever it is.                                         *)
Emit == /\ verdict = "open"
        /\ Len(spans') > 0
        /\ LET new == spans'[Len(spans')]
           IN /\ new \in Span
              /\ spans' = Append(spans, new)
              /\ LastEnd <= new.from
              /\ new.from <= new.to
              /\ Marked(Len(spans)) => new.mark
        /\ UNCHANGED verdict

Accept == /\ verdict = "open"
          /\ EndMarks <= Len(spans)
          /\ \A i \in 1 .. Len(spans) : Marked(i) <=> i > Len(spans) - EndMarks
          /\ verdict' = "accepted"
          /\ UNCHANGED spans

Reject == /\ verdict = "open"
          /\ verdict' = "rejected"
          /\ UNCHANGED spans

StreamNext == Emit \/ Accept \/ Reject

StreamSpec == StreamInit /\ [][StreamNext]_streamVars
=============================================================================
