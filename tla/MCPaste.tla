------------------------------ MODULE MCPaste ------------------------------
EXTENDS Paste, TLC

\* A save folder with a file and, against the rules for memory cards, a folder in
\* it; and a file beside it.
CONSTANTS save, file, sub, other

Tree == (save :> Top) @@ (file :> save) @@ (sub :> save) @@ (other :> Top)

Listed == <<other, save>>
=============================================================================
