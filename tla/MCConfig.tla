------------------------------ MODULE MCConfig ------------------------------
(* Config on small instances: two card slots, the setups in which the       *)
(* searches for a page differ, and the steps that matter to each.           *)
EXTENDS Config

MCCardSlots == <<"mc0", "mc1">>
Setup(from, card, path, first, bounds) ==
  [start |-> from, translated |-> Words,
   place |-> [mc0 |-> card, mc1 |-> "bare", path |-> path],
   first |-> first, left |-> bounds]
Pagewise == [color |-> 2, save |-> 2, plug |-> 2]
Titled == [title |-> 2, save |-> 2, plug |-> 1]
Spoken == [language |-> 2, langfile |-> 1, save |-> 1, reset |-> 1, cut |-> 1]
Half == [language |-> 2, bind |-> 1, save |-> 2, reset |-> 1]
Skinned == [language |-> 1, skin |-> 1, langfile |-> 1, save |-> 2]
Screens == [color |-> 2, skin |-> 2]
Sent == [bind |-> 1, color |-> 1, path |-> 1, pages |-> 1, save |-> 2]
Broken == [color |-> 2, save |-> 1, cut |-> 1]
Away == [color |-> 2, save |-> 2, plug |-> 3]
MCSetups ==
  {Setup("boot", "ready", "ready", {"boot"}, b) :
     b \in {Pagewise, Titled, Spoken, Half, Skinned, Screens, Sent, Broken}}
  \cup {Setup("boot", "bare", "out", {}, b) : b \in {Pagewise, Sent, Away}}
  \cup {Setup("boot", "out", "out", {"mc0"}, Pagewise)}
  \cup {[Setup("boot", "ready", "out", {"boot"}, Half) EXCEPT !.translated = words] :
          words \in {{"config"}, {"misc", "browser"}}}
  \cup {Setup("mc0", "ready", "out", first, b) :
          first \in {{}, {"mc0"}}, b \in {Pagewise, Sent}}
  \cup {[Setup("mc0", "out", "ready", {}, Pagewise) EXCEPT !.place["mc1"] = "ready"]}
  \cup {[Setup("boot", "out", "ready", {}, Pagewise) EXCEPT !.place["mc1"] = "ready"]}
=============================================================================
