--------------------------- MODULE MCOutputHandler ---------------------------
(* Instances of OutputHandler for TLC. *)
EXTENDS OutputHandler

\* One route for two rules that want a video, whose image_ is left as the memory
\* was, and another route whose rule wants images.
MCRules   == {"v1", "v2", "i"}
OneOutput == [h \in {"a", "b"} |-> IF h = "a" THEN {"v1", "v2"} ELSE {"i"}]
Wishes    == [r \in MCRules |-> IF r = "i" THEN {"image"} ELSE {"video"}]

\* Two routes whose rules both want images.
TwoRules   == {"i1", "i2"}
TwoOutputs == [h \in {"a", "b"} |-> IF h = "a" THEN {"i1"} ELSE {"i2"}]
BothImage  == [r \in TwoRules |-> {"image"}]
AB         == {"a", "b"}
===============================================================================
