------------------------------ MODULE MCScreen -----------------------------
(***************************************************************************)
(* Instances of Screen: for each shell a game that is played and lost, the *)
(* dialogs, the guide, the name, and the life of the shell.                *)
(***************************************************************************)
EXTENDS Screen

Shells == {"SDL", "ANDROID", "IOS"}

NoState == [id |-> "NONE", dialog |-> "NAME", page |-> 0]
Saved(dialog, page) == [id |-> "PERSON", dialog |-> dialog, page |-> page]

Base(sh) == [shell |-> sh, first |-> FALSE, saved |-> NoState, invited |-> FALSE,
             kinds |-> {}, clicks |-> {}, happens |-> {}, slow |-> {}, fails |-> {},
             events |-> 4]

\* A game that goes on, with notes and fireworks, and one that ends.
Playing(sh) ==
    [Base(sh) EXCEPT !.saved = Saved("NONE", 0), !.slow = {"firework"},
       !.kinds = {"header", "name", "flags", "shout", "tile", "nTiles", "error"}]
Ending(sh) ==
    [Base(sh) EXCEPT !.saved = Saved("NONE", 0), !.slow = {"connection-lost", "shadow"},
       !.fails = {"connection-lost"},
       !.kinds = {"header", "error", "bad", "end"}, !.happens = {"pause"}]

\* All the dialogs, with what they show changing.
Choosing(sh) ==
    [Base(sh) EXCEPT !.saved = Saved("MENU", 0), !.events = IF sh = "ANDROID" THEN 4 ELSE 5,
       !.kinds = {"header", "conversation", "tile", "nTiles", "language"},
       !.clicks = {"outside", "language", "share", "length", "menu", "shout", "drag"}]
Reading(sh) ==
    [Base(sh) EXCEPT !.first = TRUE, !.slow = {"page", "cursor"}, !.events = IF sh = "ANDROID" THEN 4 ELSE 5,
       !.clicks = {"outside", "left", "right", "help", "menu"}, !.happens = {"resize"}]

\* The name is asked for, and the shell lives its life meanwhile.
Naming(sh) ==
    [Base(sh) EXCEPT !.slow = {"shadow"}, !.events = IF sh = "ANDROID" THEN 3 ELSE 5,
       !.clicks = {"enter", "copyright", "outside", "link"},
       !.happens = {"resize", "pause", "recreate", "new game", "invite"}]

MCPlan == UNION {{Playing(sh), Ending(sh), Choosing(sh), Reading(sh), Naming(sh)} :
                   sh \in Shells}
=============================================================================
