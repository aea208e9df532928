------------------------ MODULE MCSessionTranscript ------------------------
(* SessionTranscript with two call ids and a limit of four messages.       *)
EXTENDS SessionTranscript
CONSTANTS c1, c2

\* One of each kind: calls that are answered or not, together or alone, with the
\* same id twice, malformed with and without anything else, and failed messages.
SomeMessages ==
    {User, ToolResult(c1), ToolResult(c2),
     Assistant("stop", FALSE, <<c1, c2>>), Assistant("stop", FALSE, <<c1, c1>>),
     Assistant("stop", TRUE, <<Bad, c2>>), Assistant("stop", FALSE, <<Bad>>),
     Assistant("error", FALSE, <<>>), Assistant("aborted", TRUE, <<c1>>)}
=============================================================================
