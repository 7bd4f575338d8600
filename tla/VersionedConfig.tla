--------------------------- MODULE VersionedConfig ---------------------------
(***************************************************************************)
(* What the editors of the owned ConfigMap promise: its content is a set   *)
(* of items, and it only ever changes by one admin's edit of the content   *)
(* that is live, or by going back to a content that was live before.  A    *)
(* node group write is weaker: it keeps everything else that is live, but  *)
(* takes the groups themselves from any earlier content.                   *)
(***************************************************************************)
EXTENDS FiniteSets

CONSTANTS Items, Groups

VARIABLES
    content,    \* what is live
    past        \* every content that has been live, the present one included

avars == <<content, past>>

Toggle(set, x) == IF x \in set THEN set \ {x} ELSE set \cup {x}

Init ==
    /\ content \in SUBSET Items
    /\ past = {content}

Become(c) ==
    /\ content' = c
    /\ past' = past \cup {c}

Edit == \E x \in Items : Become(Toggle(content, x))

Restore == \E c \in past : Become(c)

WriteGroups ==
    \E c \in past, g \in Groups :
        Become((content \ Groups) \cup Toggle(c \cap Groups, g))

Next == Edit \/ Restore \/ WriteGroups

Spec == Init /\ [][Next]_avars
=============================================================================
