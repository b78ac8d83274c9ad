---------------------------- MODULE MCCollection ----------------------------
(* Small instances of Collection. *)
EXTENDS Collection

CONSTANTS a, b, old, m, t   \* digests

\* channel.about has retracted its version 1; bundle is made of meta and text.
MCParts == [k \in Kinds |-> IF k = "bundle" THEN <<"meta", "text">> ELSE <<>>]
MCPrevious == [k \in Kinds |-> IF k = "about" THEN <<"1">> ELSE <<>>]
MCCurrent == [k \in Kinds |-> IF k = "about" THEN "2" ELSE "1"]
MCRetracted == [k \in Kinds |-> IF k = "about" THEN {"1"} ELSE {}]

\* The two versions of about may produce the same bytes; old is a misfit.
MCYields ==
    [k \in Kinds |-> IF k = "about" THEN [v \in {"1", "2"} |-> IF v = "1" THEN {a, b} ELSE {b, old}]
                     ELSE [v \in {"1"} |-> CASE k = "meta" -> {m} [] k = "text" -> {t} [] OTHER -> {}]]
=============================================================================
