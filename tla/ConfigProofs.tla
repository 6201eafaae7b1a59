---------------------------- MODULE ConfigProofs ----------------------------
(* Proofs about Config: the four properties of its run, for any two card    *)
(* slots, any number of pages and colours, and any Setups.                  *)
EXTENDS Config, WellFoundedInduction, NaturalsInduction, TLAPS

-----------------------------------------------------------------------------
(* The inductive invariant *)

Folders == {"out", "bare", "ready"}
Colours == 0 .. MaxColor
KeyType == [to : Programs \cup {"elf", "none"}, folder : Languages, name : Languages]
FileType == [there : {TRUE}, upto : 0 .. Whole, s : SettingType]

\* The card in the first slot.
FirstCard == IF CardSlots = <<>> THEN Nowhere ELSE CardSlots[1]

\* TypeOK, the variables it leaves out, "off", where nothing is loaded, and the
\* folder the program starts with.
TypeInv ==
  /\ file \in [Dirs -> [Pages -> FileType \cup {NoFile}]]
  /\ skinFile \subseteq [color : Colours, skin : Skins]
  /\ place \in [Dirs -> Folders]
  /\ mode \in {"off", "main", "config", "screen"}
  /\ setting \in SettingType /\ tmpsetting \in SettingType /\ opened \in SettingType
  /\ setting.misc.slashes = 1 /\ tmpsetting.misc.slashes = 1
  /\ rgb \in Colours /\ page \in Pages /\ maxCNF \in 1 .. PageCount
  /\ dir \in Dirs /\ lang \in Languages
  /\ chosen \in {"no", "menu", "held"}
  /\ kept \in [Pages -> Colours \cup {NoColor}]
  /\ mode = "off" => page = 0 /\ dir = start
  /\ start \in {"boot", FirstCard} \ {Nowhere}

\* No launch key has a name of a language other than the settings'.
Named(s) ==
  /\ s.misc.in = s.lang
  /\ \A k \in Keys : s.keys[k].to \in Programs => Matches(s.keys[k], s.lang)

NamesInv ==
  Without({"lang_gone", "cut", "select_passed", "half_spoken"}) =>
    /\ Named(setting) /\ Named(tmpsetting)
    /\ \A d \in Dirs, p \in Pages : file[d][p].there =>
         file[d][p].upto = Whole /\ Named(file[d][p].s)

\* SELECT starts the settings menu while the page does not define it.
SelectSet(s) == ~s.defined => s.keys["select"] = Key("config", s.misc.in)

\* Settings that start what the others do, and differ in names alone.
Kin(s, o) ==
  /\ [s EXCEPT !.keys = o.keys, !.misc = o.misc] = o
  /\ \A k \in Keys :
       (Starts(o, k) # "nothing" /\ ~(k = "select" /\ ~o.defined)) =>
         Starts(s, k) = Starts(o, k)

MenuInv ==
  /\ mode = "main" => SelectSet(setting)
  /\ mode \in {"off", "main"} => tmpsetting = Defaults
  /\ mode \in {"config", "screen"} => Kin(tmpsetting, opened) /\ SelectSet(opened)

\* A page has no other page's title.
TitleInv ==
  /\ setting.title \in {NoTitle, page} /\ tmpsetting.title \in {NoTitle, page}
  /\ \A d \in Dirs, p \in Pages : file[d][p].there => file[d][p].s.title \in {NoTitle, p}

\* The folder a page is loaded from while every folder is in: the one that
\* LaunchElfDir starts with, else SYS-CONF of the card in the first slot.
Homes == {start, FirstCard} \ {Nowhere}
Holds(d, p) == d # Nowhere /\ file[d][p].there
Home(p) ==
  IF Holds(start, p) THEN start
  ELSE IF Holds(FirstCard, p) THEN FirstCard ELSE Nowhere

Causes == {"cut", "away", "path", "moved", "second_card"}

\* No page is cut, and none names a folder to go on from.
WholeInv ==
  /\ setting.path = Nowhere /\ tmpsetting.path = Nowhere
  /\ \A d \in Dirs, p \in Pages : file[d][p].there =>
       file[d][p].upto = Whole /\ file[d][p].s.path = Nowhere

\* Where LaunchElfDir is: other pages are searched only where page 0 is, and
\* away from the start folder only while that has no page at all.
WhereInv ==
  /\ dir \in Homes
  /\ (page > 0 \/ maxCNF > 1) => Holds(dir, 0)
  /\ dir # start => \A p \in Pages : ~Holds(start, p)
  /\ \A p \in Pages : Holds(start, p) => Holds(start, 0)

\* What was saved is at home, and what was not changed since is what is there.
KeptInv ==
  /\ \A p \in Pages : kept[p] # NoColor =>
       Home(p) # Nowhere /\ file[Home(p)][p].s.color = kept[p]
  /\ (mode # "off" /\ chosen = "no" /\ kept[page] # NoColor) =>
       setting.color = kept[page]
  /\ (mode \in {"config", "screen"} /\ chosen # "held" /\ kept[page] # NoColor) =>
       tmpsetting.color = kept[page]
  /\ mode = "main" => chosen # "menu"

\* A folder with a page is on its card.
BareInv == \A d \in Dirs, p \in Pages : file[d][p].there => place[d] # "bare"

ComesBackInv == Without(Causes) => WholeInv /\ WhereInv /\ KeptInv

IInv ==
  /\ TypeInv /\ NamesInv /\ MenuInv /\ TitleInv /\ BareInv /\ ComesBackInv

-----------------------------------------------------------------------------
(* Cards *)

\* A nonempty set of natural numbers has a least member.
LEMMA LeastIn ==
    ASSUME NEW S \in SUBSET Nat, S # {}
    PROVE  Min(S) \in S /\ \A v \in S : Min(S) <= v
<1> DEFINE less == OpToRel(<, Nat)
<1>1. \A i, j \in Nat : <<j, i>> \in less <=> j < i
  BY DEF OpToRel
<1>2. IsWellFoundedOn(less, Nat)
  BY NatLessThanWellFounded
<1> HIDE DEF less
<1>3. PICK w \in S : \A v \in S : ~ (<<v, w>> \in less)
  BY <1>2, WFMin
<1>4. ASSUME NEW v \in S PROVE w <= v
  <2>1. v \in Nat /\ w \in Nat /\ ~ (v < w)
    BY <1>1, <1>3
  <2> QED BY <2>1
<1> QED BY <1>4 DEF Min

LEMMA CardsAre ==
    /\ Len(CardSlots) \in Nat
    /\ Cards = {CardSlots[i] : i \in 1 .. Len(CardSlots)}
    /\ Cards \subseteq {"mc0", "mc1"}
    /\ "boot" \notin Cards /\ "path" \notin Cards /\ Nowhere \notin Dirs
    /\ Cards \subseteq Dirs /\ "boot" \in Dirs /\ "path" \in Dirs
<1>1. CardSlots \in Seq({"mc0", "mc1"})
  BY ConfigAssumption
<1>2. DOMAIN CardSlots = 1 .. Len(CardSlots) /\ Len(CardSlots) \in Nat
  BY <1>1
<1>3. Cards = {CardSlots[i] : i \in 1 .. Len(CardSlots)}
  BY <1>2 DEF Cards, Range
<1>4. Cards \subseteq {"mc0", "mc1"}
  BY <1>1, <1>3
<1> QED BY <1>2, <1>3, <1>4 DEF Dirs, Nowhere

LEMMA FirstCardIs ==
    /\ FirstCard \in Cards \cup {Nowhere}
    /\ FirstCard = Nowhere <=> CardSlots = <<>>
    /\ FirstCard = Nowhere => Cards = {}
    /\ FirstCard # Nowhere => FirstCard = CardSlots[1]
<1>1. CardSlots \in Seq({"mc0", "mc1"})
  BY ConfigAssumption
<1>2. CASE CardSlots = <<>>
  <2>1. Len(CardSlots) = 0
    BY <1>2
  <2>2. Cards = {}
    BY <2>1, CardsAre
  <2> QED BY <1>2, <2>2, CardsAre DEF FirstCard
<1>3. CASE CardSlots # <<>>
  <2>1. Len(CardSlots) >= 1
    BY <1>1, <1>3
  <2>2. 1 \in 1 .. Len(CardSlots)
    BY <2>1, CardsAre
  <2>3. CardSlots[1] \in Cards
    BY <2>2, CardsAre
  <2>4. FirstCard = CardSlots[1]
    BY <1>3 DEF FirstCard
  <2> QED BY <1>3, <2>3, <2>4, CardsAre
<1> QED BY <1>2, <1>3

\* The program starts with its own folder or with the first card's.
LEMMA StartIs ==
    ASSUME TypeInv
    PROVE  /\ start \in Dirs /\ start # Nowhere /\ start \in Homes
           /\ Homes \subseteq Dirs /\ Nowhere \notin Homes
           /\ start \in Cards => start = FirstCard
BY FirstCardIs, CardsAre DEF TypeInv, Homes, Nowhere

\* CheckMC answers with a card that is plugged in, the first slot before the
\* second one.
LEMMA CheckMCIs ==
    /\ CheckMC \in Cards \cup {Nowhere}
    /\ (FirstCard # Nowhere /\ place[FirstCard] # "out") => CheckMC = FirstCard
<1> DEFINE I == {i \in 1 .. Len(CardSlots) : place[CardSlots[i]] # "out"}
           slot == IF I # {} THEN Min(I) ELSE 0
<1>1. CheckMC = IF slot = 0 THEN Nowhere ELSE CardSlots[slot]
  BY DEF CheckMC, SelectInSeq
<1>2. I \in SUBSET Nat /\ I \subseteq 1 .. Len(CardSlots) /\ 0 \notin I
  BY CardsAre
<1>3. I # {} => Min(I) \in I /\ \A v \in I : Min(I) <= v
  BY <1>2, LeastIn
<1>4. CheckMC \in Cards \cup {Nowhere}
  BY <1>1, <1>2, <1>3, CardsAre
<1>5. ASSUME FirstCard # Nowhere, place[FirstCard] # "out"
      PROVE  CheckMC = FirstCard
  <2>1. CardSlots # <<>> /\ FirstCard = CardSlots[1]
    BY <1>5, FirstCardIs
  <2>2. Len(CardSlots) # 0
    <3>1. CardSlots \in Seq({"mc0", "mc1"})
      BY ConfigAssumption
    <3> QED BY <2>1, <3>1
  <2>3. 1 \in I
    BY <1>5, <2>1, <2>2, CardsAre
  <2>4. Min(I) \in Nat /\ Min(I) <= 1 /\ Min(I) # 0
    BY <1>2, <1>3, <2>3
  <2>5. slot = 1
    BY <2>3, <2>4
  <2> QED BY <1>1, <2>1, <2>5
<1> QED BY <1>4, <1>5

-----------------------------------------------------------------------------
(* Settings *)

LEMMA PagesAre ==
    /\ PageCount \in Nat /\ PageCount >= 1 /\ MaxColor \in Nat /\ MaxColor >= 1
    /\ 0 \in Pages /\ Pages \subseteq Nat
    /\ \A p \in Pages : p < PageCount
    /\ DefColor \in Colours /\ NoColor \notin Colours
BY ConfigAssumption DEF Pages, DefColor, Colours, NoColor

\* What a launch key of a program is made of.
LEMMA KeyIs ==
    ASSUME NEW program \in Programs \cup {"elf", "none"}, NEW language
    PROVE  /\ Key(program, language) \in KeyType /\ Key(program, language).to = program
           /\ program \in Programs => Matches(Key(program, language), language)
BY DEF Key, KeyType, Name, Languages, Matches

\* While the words translated stay, so does which settings are named.
LEMMA SameNames ==
    ASSUME translated' = translated
    PROVE  /\ \A s : Named(s)' <=> Named(s)
           /\ \A s : SelectSet(s)' <=> SelectSet(s)
           /\ \A s, o : Kin(s, o)' <=> Kin(s, o)
           /\ Defaults' = Defaults
<1>1. \A program, language : Key(program, language)' = Key(program, language)
  BY DEF Key, Name
<1>2. \A key, language : Matches(key, language)' <=> Matches(key, language)
  BY <1>1 DEF Matches
<1>3. \A s, k : Starts(s, k)' = Starts(s, k)
  BY <1>2 DEF Starts
<1>4. NoKey' = NoKey /\ Defaults' = Defaults
  BY <1>1 DEF NoKey, Defaults
<1> QED BY <1>1, <1>2, <1>3, <1>4 DEF Named, SelectSet, Kin

LEMMA DefaultsAre ==
    /\ Defaults \in SettingType
    /\ Defaults.misc.slashes = 1 /\ Defaults.path = Nowhere
    /\ Defaults.pages = 1 /\ Defaults.title = NoTitle
    /\ Named(Defaults) /\ ~Defaults.defined
BY PagesAre DEF Defaults, SettingType, NoKey, Key, Name, Programs, Keys, Languages, Skins,
                Named, Matches, Colours, DefColor

\* What Load_External_Language keeps of the settings, and what it sets.
LEMMA RenamedIs ==
    ASSUME NEW s \in SettingType, NEW t, t = Renamed(s)
    PROVE  /\ t \in SettingType
           /\ t.misc.slashes = 1 /\ t.misc.in = LanguageOf(s)
           /\ t.color = s.color /\ t.title = s.title /\ t.pages = s.pages
           /\ t.path = s.path /\ t.lang = s.lang /\ t.defined = s.defined
<1> DEFINE Hit(k) == /\ Matches(s.keys[k], s.misc.in)
                     /\ s.misc.slashes = 1
                     /\ k = "select" => s.defined
           keys == [k \in Keys |-> IF Hit(k) THEN Key(s.keys[k].to, LanguageOf(s))
                                             ELSE s.keys[k]]
           misc == [in |-> LanguageOf(s), slashes |-> 1]
<1>1. LanguageOf(s) \in Languages
  BY DEF LanguageOf, Languages
<1>2. keys \in [Keys -> KeyType]
  <2>1. ASSUME NEW k \in Keys
        PROVE  Key(s.keys[k].to, LanguageOf(s)) \in KeyType /\ s.keys[k] \in KeyType
    BY KeyIs DEF SettingType, KeyType
  <2> QED BY <2>1
<1>3. misc \in [in : Languages, slashes : 1 .. 2]
  BY <1>1
<1>4. t = [s EXCEPT !.keys = keys, !.misc = misc]
  BY DEF Renamed
<1>5. misc.slashes = 1 /\ misc.in = LanguageOf(s)
  OBVIOUS
<1> HIDE DEF keys, misc
<1>6. t \in SettingType
  BY <1>2, <1>3, <1>4 DEF SettingType, KeyType
<1>7. /\ t.misc = misc
      /\ t.color = s.color /\ t.title = s.title /\ t.pages = s.pages
      /\ t.path = s.path /\ t.lang = s.lang /\ t.defined = s.defined
  BY <1>4 DEF SettingType
<1> QED BY <1>5, <1>6, <1>7

\* setLaunchKeys changes SELECT alone, and only while it is not defined.
LEMMA SetLaunchKeysIs ==
    ASSUME NEW s \in SettingType, NEW t, t = SetLaunchKeys(s)
    PROVE  /\ t \in SettingType
           /\ t.misc = s.misc /\ t.color = s.color /\ t.title = s.title
           /\ t.pages = s.pages /\ t.path = s.path /\ t.lang = s.lang
           /\ t.keys["circle"] = s.keys["circle"]
           /\ t.defined = s.defined /\ SelectSet(t)
           /\ s.defined => t = s
<1>1. Key("config", s.misc.in) \in KeyType
  BY KeyIs DEF Programs
<1> QED BY <1>1 DEF SetLaunchKeys, SettingType, KeyType, SelectSet, Keys

LEMMA SelectStarts ==
    ASSUME NEW s, SelectSet(s), ~s.defined
    PROVE  Starts(s, "select") = "config"
BY KeyIs DEF SelectSet, Starts, Programs

LEMMA ScannedIs ==
    ASSUME NEW f \in FileType, NEW t, t = Scanned(f)
    PROVE  /\ t \in SettingType
           /\ t.title \in {f.s.title, NoTitle}
           /\ f.upto = Whole => /\ t.color = f.s.color /\ t.title = f.s.title
                                /\ t.path = f.s.path /\ t.pages = f.s.pages
                                /\ t.lang = f.s.lang /\ t.keys = f.s.keys
                                /\ t.misc.in = f.s.misc.in /\ t.misc.slashes = 2
                                /\ t.defined
<1> DEFINE rest == IF Reaches(f, Whole) THEN f.s ELSE Defaults
           look == SkinOf(IF Reaches(f, 3) THEN f.s ELSE Defaults)
           keys == IF Reaches(f, 1) THEN f.s.keys ELSE Defaults.keys
           misc == IF Reaches(f, 2) THEN [in |-> f.s.misc.in, slashes |-> 2]
                                    ELSE Defaults.misc
           on   == Reaches(f, 1)
<1>1. f.s \in SettingType /\ f.upto \in 0 .. 4
  BY DEF FileType, Whole
<1>2. rest \in SettingType
  BY <1>1, DefaultsAre
<1>3. look \in [color : Colours, skin : Skins]
  BY <1>1, DefaultsAre DEF SkinOf, SettingType, Colours
<1>4. keys \in [Keys -> KeyType]
  BY <1>1, DefaultsAre DEF SettingType, KeyType
<1>5. misc \in [in : Languages, slashes : 1 .. 2]
  BY <1>1, DefaultsAre DEF SettingType
<1>6. on \in BOOLEAN
  BY <1>1 DEF Reaches
<1>7. t = [[rest EXCEPT !.keys = keys, !.defined = on, !.misc = misc]
             EXCEPT !.color = look.color, !.skin = look.skin]
  BY DEF Scanned, SkinScanned
<1>8. rest.title \in {f.s.title, NoTitle}
  BY DefaultsAre
<1>9. f.upto = Whole =>
        /\ rest = f.s /\ look.color = f.s.color /\ keys = f.s.keys /\ on
        /\ misc.in = f.s.misc.in /\ misc.slashes = 2
  BY DEF Reaches, Whole, SkinOf
<1> HIDE DEF rest, look, keys, misc, on
<1>10. t \in SettingType /\ t.title = rest.title
  <2>1. PICK u : u = [rest EXCEPT !.keys = keys, !.defined = on, !.misc = misc]
    OBVIOUS
  <2>2. u \in SettingType /\ u.title = rest.title
    BY <1>2, <1>4, <1>5, <1>6, <2>1 DEF SettingType, KeyType
  <2>3. look.color \in Colours /\ look.skin \in Skins
    BY <1>3
  <2>4. t = [u EXCEPT !.color = look.color, !.skin = look.skin]
    BY <1>7, <2>1
  <2> QED BY <2>2, <2>3, <2>4 DEF SettingType, Colours
<1>11. /\ t.color = look.color /\ t.path = rest.path /\ t.pages = rest.pages
       /\ t.lang = rest.lang /\ t.keys = keys /\ t.misc = misc /\ t.defined = on
  BY <1>2, <1>7 DEF SettingType
<1> QED BY <1>8, <1>9, <1>10, <1>11

-----------------------------------------------------------------------------
(* What the edits in the menus have in common *)

NamesClean == Without({"lang_gone", "cut", "select_passed", "half_spoken"})

\* One setting is changed: nothing else, but for the copy of the colour and
\* the language, and a colour and a path never unseen.
Edited ==
  /\ mode \in {"config", "screen"}
  /\ UNCHANGED <<disk, mode, tmpsetting, opened, page, maxCNF, dir, kept>>
  /\ setting' \in SettingType /\ setting'.misc.slashes = 1
  /\ rgb' \in Colours /\ lang' \in Languages
  /\ setting'.title \in {setting.title, page}
  /\ setting'.path = setting.path \/ "path" \in mishaps'
  /\ (setting'.color = setting.color /\ chosen' = chosen) \/ chosen' = Choosing
  /\ mishaps \subseteq mishaps'
  /\ (NamesClean' /\ Named(setting)) => Named(setting')

LEMMA BindIs == TypeInv /\ Bind => Edited
<1> SUFFICES ASSUME TypeInv, Bind PROVE Edited
  OBVIOUS
<1>1. PICK key \in {NoKey, Elf} \cup
        (IF MiscShown THEN {Key(program, lang) : program \in Programs} ELSE {}) :
        /\ Edits("config", "bind", [setting EXCEPT !.keys["circle"] = key])
        /\ mishaps' = mishaps \cup
             (IF key.to \in Programs /\ ~Matches(key, setting.misc.in)
              THEN {"half_spoken"} ELSE {})
  BY DEF Bind
<1>2. setting \in SettingType /\ lang \in Languages /\ setting.misc.slashes = 1
  BY DEF TypeInv
<1>3. /\ key \in KeyType
      /\ (NamesClean' /\ key.to \in Programs) => Matches(key, setting.misc.in)
  <2>1. NoKey \in KeyType /\ Elf \in KeyType
    BY KeyIs DEF NoKey, Elf
  <2>2. \A program \in Programs : Key(program, lang) \in KeyType
    BY KeyIs
  <2> QED BY <1>1, <2>1, <2>2 DEF NamesClean, Without
<1>4. setting' = [setting EXCEPT !.keys = [setting.keys EXCEPT !["circle"] = key]]
  BY <1>1 DEF Edits
<1>5. PICK keys : keys = [setting.keys EXCEPT !["circle"] = key]
  OBVIOUS
<1>6. keys \in [Keys -> KeyType] /\ keys["circle"] = key /\ keys["select"] = setting.keys["select"]
  BY <1>2, <1>3, <1>5 DEF SettingType, Keys, KeyType
<1>7. /\ setting' \in SettingType /\ setting'.misc = setting.misc
      /\ setting'.title = setting.title /\ setting'.path = setting.path
      /\ setting'.color = setting.color /\ setting'.keys = keys
      /\ setting'.lang = setting.lang
  BY <1>2, <1>4, <1>5, <1>6 DEF SettingType, KeyType
<1>8. (NamesClean' /\ Named(setting)) => Named(setting')
  BY <1>3, <1>6, <1>7 DEF Named, Keys
<1> QED BY <1>1, <1>2, <1>7, <1>8 DEF Edited, Edits, Bind, TypeInv

\* The look of the screen, which the names do not depend on.
Dressed(s, c, k) == [s EXCEPT !.color = c, !.skin = k]

LEMMA LookIs ==
    ASSUME NEW s \in SettingType, NEW c \in Colours, NEW k \in Skins,
           NEW t, t = Dressed(s, c, k)
    PROVE  /\ t \in SettingType /\ t.misc = s.misc /\ t.keys = s.keys
           /\ t.lang = s.lang /\ t.defined = s.defined
           /\ Named(s) => Named(t)
<1>1. /\ t \in SettingType /\ t.misc = s.misc /\ t.keys = s.keys
      /\ t.lang = s.lang /\ t.defined = s.defined
  BY DEF SettingType, Colours, Dressed
<1>2. Named(s) => Named(t)
  BY <1>1 DEF Named
<1> QED BY <1>1, <1>2

\* Another setting the names do not depend on.
LEMMA SettingIs ==
    ASSUME NEW s \in SettingType, NEW t,
           \/ \E c \in Colours : t = [s EXCEPT !.color = c]
           \/ \E k \in Skins : t = [s EXCEPT !.skin = k]
           \/ \E p \in Pages : t = [s EXCEPT !.title = p]
           \/ \E n \in 1 .. PageCount : t = [s EXCEPT !.pages = n]
           \/ \E d \in {"path", Nowhere} : t = [s EXCEPT !.path = d]
    PROVE  /\ t \in SettingType /\ t.misc = s.misc /\ t.keys = s.keys
           /\ t.lang = s.lang /\ t.defined = s.defined
           /\ Named(s) => Named(t)
<1>1. ASSUME NEW c \in Colours, t = [s EXCEPT !.color = c]
      PROVE  t \in SettingType /\ t.misc = s.misc /\ t.keys = s.keys /\ t.lang = s.lang /\ t.defined = s.defined
  BY <1>1 DEF SettingType, Colours
<1>2. ASSUME NEW k \in Skins, t = [s EXCEPT !.skin = k]
      PROVE  t \in SettingType /\ t.misc = s.misc /\ t.keys = s.keys /\ t.lang = s.lang /\ t.defined = s.defined
  BY <1>2 DEF SettingType, Colours
<1>3. ASSUME NEW p \in Pages, t = [s EXCEPT !.title = p]
      PROVE  t \in SettingType /\ t.misc = s.misc /\ t.keys = s.keys /\ t.lang = s.lang /\ t.defined = s.defined
  BY <1>3 DEF SettingType, Colours
<1>4. ASSUME NEW n \in 1 .. PageCount, t = [s EXCEPT !.pages = n]
      PROVE  t \in SettingType /\ t.misc = s.misc /\ t.keys = s.keys /\ t.lang = s.lang /\ t.defined = s.defined
  BY <1>4 DEF SettingType, Colours
<1>5. ASSUME NEW d \in {"path", Nowhere}, t = [s EXCEPT !.path = d]
      PROVE  t \in SettingType /\ t.misc = s.misc /\ t.keys = s.keys /\ t.lang = s.lang /\ t.defined = s.defined
  BY <1>5 DEF SettingType, Colours
<1>6. /\ t \in SettingType /\ t.misc = s.misc /\ t.keys = s.keys
      /\ t.lang = s.lang /\ t.defined = s.defined
  BY <1>1, <1>2, <1>3, <1>4, <1>5
<1>7. Named(s) => Named(t)
  BY <1>6 DEF Named
<1> QED BY <1>6, <1>7

LEMMA StepColorIs ==
    ASSUME TypeInv, NEW step \in Int, StepColor(step)
    PROVE  Edited
<1>1. PICK c : c = ColorStep(rgb, step)
  OBVIOUS
<1>2. c \in Colours /\ rgb' = c /\ setting' = [setting EXCEPT !.color = c] /\ chosen' = Choosing
  BY <1>1 DEF StepColor, Edits, Colours
<1>3. setting \in SettingType /\ setting.misc.slashes = 1 /\ lang \in Languages
  BY DEF TypeInv
<1>4. setting' \in SettingType /\ setting'.misc = setting.misc /\ (Named(setting) => Named(setting'))
  BY <1>2, <1>3, SettingIs
<1>5. setting'.title = setting.title /\ setting'.path = setting.path
  BY <1>2, <1>3 DEF SettingType
<1> QED BY <1>2, <1>3, <1>4, <1>5 DEF Edited, Edits, StepColor

LEMMA SkinsAre == TypeInv /\ (LoadSkinBrowser \/ DefaultScreen \/ ConfigSkin) => Edited
<1> SUFFICES ASSUME TypeInv, LoadSkinBrowser \/ DefaultScreen \/ ConfigSkin PROVE Edited
  OBVIOUS
<1>1. setting \in SettingType /\ setting.misc.slashes = 1 /\ lang \in Languages /\ rgb \in Colours
  BY DEF TypeInv
<1>2. CASE LoadSkinBrowser
  <2>1. PICK look \in skinFile : Edits("screen", "skin", SkinScanned(setting, look))
    BY <1>2 DEF LoadSkinBrowser
  <2>2. look \in [color : Colours, skin : Skins]
    BY <2>1 DEF TypeInv
  <2>3. setting' = [setting EXCEPT !.color = look.color, !.skin = look.skin]
    BY <2>1 DEF Edits, SkinScanned
  <2>4. setting' \in SettingType /\ setting'.misc = setting.misc /\ (Named(setting) => Named(setting'))
    <3>1. PICK c \in Colours, k \in Skins : setting' = Dressed(setting, c, k)
      BY <2>2, <2>3 DEF Dressed
    <3> QED BY <1>1, <3>1, LookIs
  <2>5. setting'.title = setting.title /\ setting'.path = setting.path
    BY <1>1, <2>3 DEF SettingType
  <2> QED BY <1>1, <1>2, <2>1, <2>4, <2>5 DEF Edited, Edits, LoadSkinBrowser
<1>3. CASE DefaultScreen
  <2>1. setting' = [setting EXCEPT !.color = DefColor, !.skin = "plain"] /\ rgb' = DefColor
    BY <1>3 DEF DefaultScreen, Edits
  <2>2. "plain" \in Skins /\ DefColor \in Colours
    BY PagesAre DEF Skins
  <2>3. setting' \in SettingType /\ setting'.misc = setting.misc /\ (Named(setting) => Named(setting'))
    <3>1. PICK c \in Colours, k \in Skins : setting' = Dressed(setting, c, k)
      BY <2>1, <2>2 DEF Dressed
    <3> QED BY <1>1, <3>1, LookIs
  <2>4. setting'.title = setting.title /\ setting'.path = setting.path
    BY <1>1, <2>1 DEF SettingType
  <2> QED BY <1>1, <1>3, <2>1, <2>2, <2>3, <2>4 DEF Edited, Edits, DefaultScreen
<1>4. CASE ConfigSkin
  <2>1. PICK picture \in Skins, applied \in BOOLEAN :
          Edits("screen", "skin", [setting EXCEPT !.skin = IF applied THEN picture ELSE @])
    BY <1>4 DEF ConfigSkin
  <2>2. PICK k : k = IF applied THEN picture ELSE setting.skin
    OBVIOUS
  <2>3. k \in Skins /\ setting' = [setting EXCEPT !.skin = k]
    BY <1>1, <2>1, <2>2 DEF Edits, SettingType
  <2>4. setting' \in SettingType /\ setting'.misc = setting.misc /\ (Named(setting) => Named(setting'))
    BY <1>1, <2>3, SettingIs
  <2>5. /\ setting'.title = setting.title /\ setting'.path = setting.path
        /\ setting'.color = setting.color
    BY <1>1, <2>3 DEF SettingType
  <2> QED BY <1>1, <1>4, <2>1, <2>4, <2>5 DEF Edited, Edits, ConfigSkin
<1> QED BY <1>2, <1>3, <1>4

LEMMA StartupIs == TypeInv /\ (MenuTitle \/ PagesMore \/ PagesLess \/ EditPath) => Edited
<1> SUFFICES ASSUME TypeInv, MenuTitle \/ PagesMore \/ PagesLess \/ EditPath PROVE Edited
  OBVIOUS
<1>1. /\ setting \in SettingType /\ setting.misc.slashes = 1 /\ lang \in Languages
      /\ rgb \in Colours /\ page \in Pages
  BY DEF TypeInv
<1>2. CASE MenuTitle
  <2>1. setting' = [setting EXCEPT !.title = page]
    BY <1>2 DEF MenuTitle, Edits
  <2>2. setting' \in SettingType /\ setting'.misc = setting.misc /\ (Named(setting) => Named(setting'))
    BY <1>1, <2>1, SettingIs
  <2>3. /\ setting'.title = page /\ setting'.path = setting.path
        /\ setting'.color = setting.color
    BY <1>1, <2>1 DEF SettingType
  <2> QED BY <1>1, <1>2, <2>2, <2>3 DEF Edited, Edits, MenuTitle
<1>3. CASE PagesMore \/ PagesLess
  <2>1. PICK n \in 1 .. PageCount : setting' = [setting EXCEPT !.pages = n]
    <3>1. setting.pages \in 1 .. PageCount
      BY <1>1 DEF SettingType
    <3>2. CASE PagesMore
      <4>1. setting.pages + 1 \in 1 .. PageCount
        BY <3>1, <3>2, PagesAre DEF PagesMore
      <4> QED BY <3>2, <4>1 DEF PagesMore, Edits
    <3>3. CASE PagesLess
      <4>1. setting.pages - 1 \in 1 .. PageCount
        BY <3>1, <3>3, PagesAre DEF PagesLess
      <4> QED BY <3>3, <4>1 DEF PagesLess, Edits
    <3> QED BY <1>3, <3>2, <3>3
  <2>2. setting' \in SettingType /\ setting'.misc = setting.misc /\ (Named(setting) => Named(setting'))
    BY <1>1, <2>1, SettingIs
  <2>3. /\ setting'.title = setting.title /\ setting'.path = setting.path
        /\ setting'.color = setting.color
    BY <1>1, <2>1 DEF SettingType
  <2> QED BY <1>1, <1>3, <2>2, <2>3 DEF Edited, Edits, PagesMore, PagesLess
<1>4. CASE EditPath
  <2>1. PICK d \in {"path", Nowhere} : Edits("config", "path", [setting EXCEPT !.path = d])
    BY <1>4 DEF EditPath
  <2>2. setting' = [setting EXCEPT !.path = d]
    BY <2>1 DEF Edits
  <2>3. setting' \in SettingType /\ setting'.misc = setting.misc /\ (Named(setting) => Named(setting'))
    BY <1>1, <2>2, SettingIs
  <2>4. setting'.title = setting.title /\ setting'.color = setting.color
    BY <1>1, <2>2 DEF SettingType
  <2> QED BY <1>1, <1>4, <2>1, <2>3, <2>4 DEF Edited, Edits, EditPath
<1> QED BY <1>2, <1>3, <1>4

\* Which launch keys Load_External_Language renames.
LEMMA RenamedKeys ==
    ASSUME NEW s \in SettingType, NEW t, t = Renamed(s), NEW k \in Keys
    PROVE  /\ t.keys[k].to = s.keys[k].to
           /\ (/\ Matches(s.keys[k], s.misc.in)
               /\ s.misc.slashes = 1 /\ (k = "select" => s.defined)) =>
                /\ t.keys[k] = Key(s.keys[k].to, LanguageOf(s))
                /\ Matches(t.keys[k], LanguageOf(s))
           /\ ~(/\ Matches(s.keys[k], s.misc.in)
                /\ s.misc.slashes = 1 /\ (k = "select" => s.defined)) =>
                t.keys[k] = s.keys[k]
<1> DEFINE Hit(h) == /\ Matches(s.keys[h], s.misc.in)
                     /\ s.misc.slashes = 1
                     /\ h = "select" => s.defined
           keys == [h \in Keys |-> IF Hit(h) THEN Key(s.keys[h].to, LanguageOf(s))
                                             ELSE s.keys[h]]
           misc == [in |-> LanguageOf(s), slashes |-> 1]
<1>1. t = [s EXCEPT !.keys = keys, !.misc = misc]
  BY DEF Renamed
<1>2. keys[k] = IF Hit(k) THEN Key(s.keys[k].to, LanguageOf(s)) ELSE s.keys[k]
  OBVIOUS
<1> HIDE DEF keys, misc
<1>3. t.keys = keys
  BY <1>1 DEF SettingType
<1>4. s.keys[k].to \in Programs \cup {"elf", "none"}
  BY DEF SettingType
<1>5. Key(s.keys[k].to, LanguageOf(s)).to = s.keys[k].to
  BY <1>4, KeyIs
<1>6. Matches(s.keys[k], s.misc.in) =>
        Matches(Key(s.keys[k].to, LanguageOf(s)), LanguageOf(s))
  BY <1>4, KeyIs DEF Matches
<1> QED BY <1>2, <1>3, <1>5, <1>6

\* Renamed keys start what they started, but for an undefined SELECT.
LEMMA RenamedKin ==
    ASSUME NEW s \in SettingType, s.misc.slashes = 1, NEW t, t = Renamed(s)
    PROVE  Kin(t, s)
<1>1. [t EXCEPT !.keys = s.keys, !.misc = s.misc] = s
  BY DEF Renamed, SettingType
<1>2. ASSUME NEW k \in Keys, Starts(s, k) # "nothing", ~(k = "select" /\ ~s.defined)
      PROVE  Starts(t, k) = Starts(s, k)
  <2>1. t.misc.in = LanguageOf(s) /\ t.keys[k].to = s.keys[k].to
    BY RenamedIs, RenamedKeys
  <2>2. CASE s.keys[k].to \in Programs
    <3>1. Matches(s.keys[k], s.misc.in)
      BY <1>2, <2>2 DEF Starts
    <3>2. Matches(t.keys[k], LanguageOf(s))
      BY <1>2, <3>1, RenamedKeys
    <3> QED BY <2>1, <3>1, <3>2 DEF Starts
  <2>3. CASE s.keys[k].to \notin Programs
    BY <2>1, <2>3 DEF Starts
  <2> QED BY <2>2, <2>3
<1> QED BY <1>1, <1>2 DEF Kin

LEMMA KinOfKin ==
    ASSUME NEW s \in SettingType, NEW t \in SettingType, NEW o \in SettingType,
           Kin(t, s), Kin(s, o)
    PROVE  Kin(t, o) /\ t.defined = o.defined
<1>1. /\ [t EXCEPT !.keys = s.keys, !.misc = s.misc] = s
      /\ [s EXCEPT !.keys = o.keys, !.misc = o.misc] = o
  BY DEF Kin
<1>2. [t EXCEPT !.keys = o.keys, !.misc = o.misc] = o
  BY <1>1 DEF SettingType
<1>3. s.defined = o.defined /\ t.defined = s.defined
  BY <1>1 DEF SettingType
<1>4. ASSUME NEW k \in Keys, Starts(o, k) # "nothing", ~(k = "select" /\ ~o.defined)
      PROVE  Starts(t, k) = Starts(o, k)
  <2>1. Starts(s, k) = Starts(o, k)
    BY <1>4 DEF Kin
  <2> QED BY <1>3, <1>4, <2>1 DEF Kin
<1> QED BY <1>2, <1>3, <1>4 DEF Kin

\* Names that go with the language keep doing so when it is the one loaded.
LEMMA RenamedNamed ==
    ASSUME NEW s \in SettingType, Named(s), LanguageOf(s) = s.lang, NEW t, t = Renamed(s)
    PROVE  Named(t)
<1>1. t.misc.in = LanguageOf(s) /\ t.lang = s.lang
  BY RenamedIs
<1>2. ASSUME NEW k \in Keys, t.keys[k].to \in Programs PROVE Matches(t.keys[k], s.lang)
  <2>1. Matches(s.keys[k], s.lang)
    BY <1>2, RenamedKeys DEF Named
  <2> QED BY <2>1, RenamedKeys
<1> QED BY <1>1, <1>2 DEF Named

LEMMA LanguageIs ==
    ASSUME NEW s \in SettingType
    PROVE  /\ LanguageOf(s) \in Languages
           /\ LanguageOf(s) # s.lang => "lang_gone" \in LanguageCause(s)
BY DEF LanguageOf, LanguageCause, Languages, SettingType

LEMMA ChooseLanguageIs == TypeInv /\ ChooseLanguage => Edited
<1> SUFFICES ASSUME TypeInv, ChooseLanguage PROVE Edited
  OBVIOUS
<1>1. /\ setting \in SettingType /\ setting.misc.slashes = 1 /\ rgb \in Colours
  BY DEF TypeInv
<1>2. PICK l \in Languages : \E s :
        /\ s = [setting EXCEPT !.lang = l]
        /\ Edits("config", "language", Renamed(s)) /\ lang' = LanguageOf(s)
        /\ mishaps' = mishaps \cup LanguageCause(s)
             \cup (IF ~s.defined THEN {"select_passed"} ELSE {})
        /\ UNCHANGED <<rgb, chosen>>
  BY DEF ChooseLanguage
<1>3. PICK s :
        /\ s = [setting EXCEPT !.lang = l]
        /\ Edits("config", "language", Renamed(s)) /\ lang' = LanguageOf(s)
        /\ mishaps' = mishaps \cup LanguageCause(s)
             \cup (IF ~s.defined THEN {"select_passed"} ELSE {})
        /\ UNCHANGED <<rgb, chosen>>
  BY <1>2
<1>4. /\ s \in SettingType /\ s.lang = l /\ s.misc = setting.misc /\ s.keys = setting.keys
      /\ s.title = setting.title /\ s.color = setting.color /\ s.path = setting.path
  BY <1>1, <1>3 DEF SettingType
<1>5. setting' = Renamed(s)
  BY <1>3 DEF Edits
<1>6. /\ setting' \in SettingType /\ setting'.misc.slashes = 1
      /\ setting'.misc.in = LanguageOf(s) /\ setting'.lang = l
      /\ setting'.title = setting.title /\ setting'.color = setting.color
      /\ setting'.path = setting.path
  BY <1>4, <1>5, RenamedIs
<1>7. LanguageOf(s) \in Languages /\ (LanguageOf(s) # l => "lang_gone" \in mishaps')
  BY <1>3, <1>4, LanguageIs
<1>8. ASSUME NamesClean', Named(setting) PROVE Named(setting')
  <2>1. LanguageOf(s) = l /\ s.defined
    BY <1>3, <1>7, <1>8 DEF NamesClean, Without
  <2>2. ASSUME NEW k \in Keys, setting'.keys[k].to \in Programs
        PROVE  Matches(setting'.keys[k], l)
    <3>1. s.keys[k].to \in Programs
      BY <1>4, <1>5, <2>2, RenamedKeys
    <3>2. Matches(s.keys[k], s.misc.in)
      BY <1>4, <1>8, <3>1 DEF Named
    <3> QED BY <1>1, <1>4, <1>5, <2>1, <3>1, <3>2, RenamedKeys
  <2> QED BY <1>6, <2>1, <2>2 DEF Named
<1> QED BY <1>1, <1>3, <1>6, <1>7, <1>8 DEF Edited, Edits, TypeInv

\* Every change of a setting in the menus.
MenuEdit ==
  \/ Bind \/ StepColor(1) \/ StepColor(0 - 1) \/ LoadSkinBrowser \/ DefaultScreen
  \/ MenuTitle \/ ConfigSkin \/ PagesMore \/ PagesLess \/ EditPath \/ ChooseLanguage

LEMMA MenuEditIs == TypeInv /\ MenuEdit => Edited
BY BindIs, StepColorIs, SkinsAre, StartupIs, ChooseLanguageIs DEF MenuEdit

-----------------------------------------------------------------------------
(* What a load does *)

LEMMA HasIs ==
    ASSUME TypeInv, NEW d \in Dirs \cup {Nowhere}, NEW p \in Pages, Has(d, p)
    PROVE  d \in Dirs /\ file[d][p].there /\ file[d][p] \in FileType /\ place[d] = "ready"
<1>1. d \in Dirs /\ file[d][p].there /\ place[d] = "ready"
  BY DEF Has
<1>2. file[d][p] \in FileType \cup {NoFile}
  BY <1>1 DEF TypeInv
<1>3. ~NoFile.there
  BY DEF NoFile
<1> QED BY <1>1, <1>2, <1>3

LEMMA FoundIs ==
    ASSUME TypeInv, NEW from \in Dirs, NEW p \in Pages, NEW d, d = Found(from, p)
    PROVE  /\ d \in Dirs \cup {Nowhere}
           /\ d # Nowhere => Has(d, p)
           /\ d = Nowhere => ~Has(from, p) /\ ~Has(CardOf(from), p)
           /\ Has(from, p) => d = from
           /\ (~Has(from, p) /\ Has(CardOf(from), p)) => d = CardOf(from)
           /\ d \in {from, CardOf(from), Nowhere}
<1>1. CardOf(from) \in Dirs \cup {Nowhere}
  BY CheckMCIs, CardsAre DEF CardOf
<1>2. ~Has(Nowhere, p)
  BY DEF Has
<1>3. PICK c : c = CardOf(from)
  OBVIOUS
<1>4. d = CASE Has(from, p)                -> from
            [] ~Has(from, p) /\ Has(c, p) -> c
            [] OTHER                       -> Nowhere
  BY <1>3 DEF Found
<1>5. CASE Has(from, p)
  <2>1. d = from
    BY <1>4, <1>5
  <2> QED BY <1>5, <2>1, CardsAre
<1>6. CASE ~Has(from, p) /\ Has(c, p)
  <2>1. d = c /\ c # Nowhere
    BY <1>2, <1>4, <1>6
  <2> QED BY <1>1, <1>3, <1>6, <2>1
<1>7. CASE ~Has(from, p) /\ ~Has(c, p)
  <2>1. d = Nowhere
    BY <1>4, <1>7
  <2> QED BY <1>3, <1>7, <2>1
<1> QED BY <1>5, <1>6, <1>7

\* The page found, or none, is what the settings are, with nothing chosen.
Loaded(p, from, d) ==
  /\ setting' \in SettingType /\ setting'.misc.slashes = 1 /\ lang' \in Languages
  /\ dir' \in Dirs /\ chosen' = "no" /\ SelectSet(setting')
  /\ mishaps \subseteq mishaps'
  /\ setting'.path # Nowhere => "path" \in mishaps'
  /\ setting'.path = Nowhere => dir' = IF d = Nowhere THEN from ELSE d
  /\ d = Nowhere => setting'.title = NoTitle /\ setting'.pages = 1
  /\ d # Nowhere => setting'.title \in {NoTitle, file[d][p].s.title}
  /\ (d # Nowhere /\ file[d][p].upto = Whole) => setting'.color = file[d][p].s.color
  /\ (\E e \in Dirs : file[e][p].there /\ place[e] # "ready") => "away" \in mishaps'
  /\ (d \notin {from, Nowhere} /\ \E q \in Pages : file[from][q].there) => "moved" \in mishaps'
  /\ (d \in Cards /\ d # CardSlots[1]) => "second_card" \in mishaps'
  /\ (/\ NamesClean'
      /\ d # Nowhere => file[d][p].upto = Whole /\ Named(file[d][p].s)) => Named(setting')

LEMMA LoadIs ==
    ASSUME TypeInv, NEW p \in Pages, NEW from \in Dirs, Load(p, from), NEW d, d = Found(from, p)
    PROVE  Loaded(p, from, d)
<1>1. PICK s : s = IF d = Nowhere THEN Defaults ELSE Scanned(file[d][p])
  OBVIOUS
<1>2. PICK at : at = IF d = Nowhere THEN from ELSE d
  OBVIOUS
<1>3. /\ setting' = SetLaunchKeys(Renamed(s)) /\ lang' = LanguageOf(s)
      /\ dir' = Validated(s, at) /\ chosen' = "no"
      /\ mishaps' = mishaps \cup LanguageCause(s) \cup AwayCause(p)
                      \cup MovedCause(from, at) \cup SecondCause(at)
                      \cup (IF s.path # Nowhere THEN {"path"} ELSE {})
  BY <1>1, <1>2 DEF Load
<1>4. /\ d \in Dirs \cup {Nowhere} /\ at \in Dirs
      /\ d # Nowhere => file[d][p] \in FileType
  BY <1>2, FoundIs, HasIs
<1>5. s \in SettingType
  BY <1>1, <1>4, DefaultsAre, ScannedIs
<1>6. PICK r \in SettingType : r = Renamed(s)
  BY <1>5, RenamedIs
<1>7. /\ r.misc.slashes = 1 /\ r.misc.in = LanguageOf(s) /\ r.color = s.color
      /\ r.title = s.title /\ r.pages = s.pages /\ r.path = s.path /\ r.lang = s.lang
      /\ r.defined = s.defined
  BY <1>5, <1>6, RenamedIs
<1>8. PICK t : t = SetLaunchKeys(r)
  OBVIOUS
<1>9. /\ t \in SettingType /\ t.misc = r.misc /\ t.color = r.color /\ t.title = r.title
      /\ t.pages = r.pages /\ t.path = r.path /\ t.lang = r.lang /\ SelectSet(t)
      /\ t.keys["circle"] = r.keys["circle"] /\ t.defined = r.defined
      /\ r.defined => t = r
  BY <1>8, SetLaunchKeysIs
<1>10. setting' = t
  BY <1>3, <1>6, <1>8
<1>11. LanguageOf(s) \in Languages /\ (LanguageOf(s) # s.lang => "lang_gone" \in mishaps')
  BY <1>3, <1>5, LanguageIs
<1>12. /\ mishaps \subseteq mishaps'
       /\ s.path # Nowhere => "path" \in mishaps'
       /\ (\E e \in Dirs : file[e][p].there /\ place[e] # "ready") => "away" \in mishaps'
       /\ (at # from /\ \E q \in Pages : file[from][q].there) => "moved" \in mishaps'
       /\ (at \in Cards /\ at # CardSlots[1]) => "second_card" \in mishaps'
  BY <1>3 DEF AwayCause, MovedCause, SecondCause
<1>13. /\ dir' \in Dirs /\ (s.path = Nowhere => dir' = at)
  BY <1>3, <1>4, <1>5, CardsAre DEF Validated, SettingType
<1>14. /\ d = Nowhere => s.title = NoTitle /\ s.pages = 1
       /\ d # Nowhere => s.title \in {NoTitle, file[d][p].s.title}
       /\ (d # Nowhere /\ file[d][p].upto = Whole) => s.color = file[d][p].s.color
  BY <1>1, <1>4, DefaultsAre, ScannedIs
<1>15. ASSUME NamesClean', d # Nowhere => file[d][p].upto = Whole /\ Named(file[d][p].s)
       PROVE  Named(t)
  <2>1. LanguageOf(s) = s.lang
    BY <1>11, <1>15 DEF NamesClean, Without
  <2>2. Named(s)
    <3>1. CASE d = Nowhere
      BY <1>1, <3>1, DefaultsAre
    <3>2. CASE d # Nowhere
      <4>1. Named(file[d][p].s) /\ file[d][p] \in FileType /\ file[d][p].upto = Whole
        BY <1>4, <1>15, <3>2
      <4>2. /\ s.keys = file[d][p].s.keys /\ s.misc.in = file[d][p].s.misc.in
            /\ s.lang = file[d][p].s.lang
        BY <1>1, <3>2, <4>1, ScannedIs
      <4> QED BY <4>1, <4>2 DEF Named
    <3> QED BY <3>1, <3>2
  <2>3. Named(r)
    <3>1. ASSUME NEW k \in Keys, r.keys[k].to \in Programs
          PROVE  Matches(r.keys[k], s.lang)
      <4>1. s.keys[k].to \in Programs /\ Matches(s.keys[k], s.lang)
        BY <1>5, <1>6, <2>2, <3>1, RenamedKeys DEF Named
      <4> QED BY <1>5, <1>6, <2>1, <4>1, RenamedKeys
    <3> QED BY <1>7, <2>1, <3>1 DEF Named
  <2> QED BY <1>8, <1>9, <2>3, KeyIs DEF Named, SetLaunchKeys, SelectSet, Keys, Programs
<1> QED BY <1>2, <1>3, <1>4, <1>7, <1>9, <1>10, <1>11, <1>12, <1>13, <1>14, <1>15, CardsAre
        DEF Loaded

-----------------------------------------------------------------------------
(* Each kind of step keeps the invariant *)

\* A step that leaves the files and what is plugged in alone leaves alone
\* where the pages are.
LEMMA SameHomes ==
    ASSUME file' = file, start' = start
    PROVE  /\ \A d, p : Holds(d, p)' <=> Holds(d, p)
           /\ \A p : Home(p)' = Home(p)
           /\ Homes' = Homes /\ FirstCard' = FirstCard
BY DEF Holds, Home, Homes, FirstCard, Nowhere

LEMMA EditedStep == IInv /\ Edited => IInv'
<1> SUFFICES ASSUME IInv, Edited PROVE IInv'
  OBVIOUS
<1>1. TypeInv /\ NamesInv /\ MenuInv /\ TitleInv /\ BareInv /\ ComesBackInv
  BY DEF IInv
<1>2. UNCHANGED <<file, skinFile, place, given, mode, tmpsetting, opened, page, maxCNF, dir, kept>>
  BY DEF Edited, disk
<1>3. TypeInv'
  BY <1>1, <1>2 DEF TypeInv, Edited, Choosing, FirstCard, given
<1>4. NamesInv'
  <2> SUFFICES ASSUME NamesClean'
               PROVE  /\ Named(setting') /\ Named(tmpsetting')
                      /\ \A d \in Dirs, p \in Pages : file'[d][p].there =>
                           file'[d][p].upto = Whole /\ Named(file'[d][p].s)
    BY <1>2, SameNames DEF NamesInv, NamesClean, Without, given, disk
  <2>1. NamesClean
    BY DEF NamesClean, Without, Edited
  <2>2. /\ Named(setting) /\ Named(tmpsetting)
        /\ \A d \in Dirs, p \in Pages : file[d][p].there =>
             file[d][p].upto = Whole /\ Named(file[d][p].s)
    BY <1>1, <2>1 DEF NamesInv, NamesClean
  <2> QED BY <1>2, <2>2 DEF Edited
<1>5. MenuInv' /\ TitleInv' /\ BareInv'
  BY <1>1, <1>2, SameNames DEF MenuInv, TitleInv, BareInv, Edited, given
<1>6. ComesBackInv'
  <2> SUFFICES ASSUME Without(Causes)' PROVE (WholeInv /\ WhereInv /\ KeptInv)'
    BY DEF ComesBackInv
  <2>1. Without(Causes) /\ "path" \notin mishaps'
    BY DEF Without, Causes, Edited
  <2>2. WholeInv /\ WhereInv /\ KeptInv
    BY <1>1, <2>1 DEF ComesBackInv
  <2>3. setting'.path = setting.path
    BY <2>1 DEF Edited
  <2>4. WholeInv'
    BY <1>2, <2>2, <2>3 DEF WholeInv
  <2>5. WhereInv'
    BY <1>2, <2>2, SameHomes DEF WhereInv, given
  <2>6. KeptInv'
    <3>1. /\ chosen' = "no" => chosen = "no" /\ setting'.color = setting.color
          /\ chosen' # "held" => chosen # "held"
      BY DEF Edited, Choosing
    <3>2. mode' # "main"
      BY <1>2 DEF Edited
    <3> QED BY <1>2, <2>2, <3>1, <3>2, SameHomes DEF KeptInv, given
  <2> QED BY <2>4, <2>5, <2>6
<1> QED BY <1>3, <1>4, <1>5, <1>6 DEF IInv

LEMMA LoadedStep ==
    ASSUME IInv, NEW p \in Pages, NEW from \in Dirs, NEW d, d = Found(from, p),
           Loaded(p, from, d),
           UNCHANGED <<disk, tmpsetting, opened, rgb, kept>>, mode' = "main",
           page' = p, from = dir, maxCNF' \in 1 .. PageCount,
           \/ mode = "off" /\ p = 0 /\ maxCNF' = setting'.pages
           \/ mode = "main" /\ maxCNF' = maxCNF /\ (p > 0 => page > 0 \/ maxCNF > 1)
    PROVE  IInv'
<1>1. TypeInv /\ NamesInv /\ MenuInv /\ TitleInv /\ BareInv /\ ComesBackInv
  BY DEF IInv
<1>2. UNCHANGED <<file, skinFile, place, given, tmpsetting, opened, rgb, kept>>
  BY DEF disk
<1>3. d \in Dirs \cup {Nowhere} /\ (d # Nowhere => Has(d, p))
  BY <1>1, FoundIs
<1>4. d # Nowhere => d \in Dirs /\ file[d][p].there /\ file[d][p] \in FileType
  BY <1>1, <1>3, HasIs
<1>5. tmpsetting = Defaults
  BY <1>1 DEF MenuInv
<1>6. TypeInv'
  BY <1>1, <1>2 DEF TypeInv, Loaded, FirstCard, given
<1>7. NamesInv'
  <2> SUFFICES ASSUME NamesClean'
               PROVE  /\ Named(setting') /\ Named(tmpsetting')
                      /\ \A e \in Dirs, q \in Pages : file'[e][q].there =>
                           file'[e][q].upto = Whole /\ Named(file'[e][q].s)
    BY <1>2, SameNames DEF NamesInv, NamesClean, Without, given, disk
  <2>1. NamesClean
    BY DEF NamesClean, Without, Loaded
  <2>2. /\ Named(setting) /\ Named(tmpsetting)
        /\ \A e \in Dirs, q \in Pages : file[e][q].there =>
             file[e][q].upto = Whole /\ Named(file[e][q].s)
    BY <1>1, <2>1 DEF NamesInv, NamesClean
  <2>3. Named(setting')
    BY <1>4, <2>2 DEF Loaded
  <2> QED BY <1>2, <2>2, <2>3
<1>8. MenuInv'
  BY <1>2, <1>5, SameNames DEF MenuInv, Loaded, given
<1>9. TitleInv'
  <2>1. setting'.title \in {NoTitle, p}
    BY <1>1, <1>4 DEF Loaded, TitleInv
  <2> QED BY <1>1, <1>2, <1>5, <2>1, DefaultsAre DEF TitleInv
<1>10. BareInv'
  BY <1>1, <1>2 DEF BareInv
<1>11. ComesBackInv'
  <2> SUFFICES ASSUME Without(Causes)' PROVE (WholeInv /\ WhereInv /\ KeptInv)'
    BY DEF ComesBackInv
  <2>1. /\ Without(Causes) /\ setting'.path = Nowhere
        /\ \A e \in Dirs : file[e][p].there => place[e] = "ready"
        /\ d \notin {from, Nowhere} => \A q \in Pages : ~file[from][q].there
        /\ d \in Cards => d = CardSlots[1]
    BY DEF Without, Causes, Loaded
  <2>2. WholeInv /\ WhereInv /\ KeptInv
    BY <1>1, <2>1 DEF ComesBackInv
  <2>3. WholeInv'
    BY <1>2, <2>1, <2>2 DEF WholeInv
  <2>4. dir' = IF d = Nowhere THEN from ELSE d
    BY <2>1 DEF Loaded
  <2>5. from \in Homes /\ FirstCard \in Cards \cup {Nowhere}
    BY <2>2, FirstCardIs DEF WhereInv
  <2>6. \* what is at home is found there
        Home(p) # Nowhere => d = Home(p)
    <3>1. \A e \in Dirs : file[e][p].there => Has(e, p)
      BY <2>1, CardsAre DEF Has
    <3>2. \A e \in Dirs : Has(e, p) => file[e][p].there
      BY DEF Has
    <3>3. Homes \subseteq Dirs
      BY <1>1, StartIs
    <3>4. CASE from = start /\ Holds(start, p)
      <4>1. Has(from, p)
        BY <3>1, <3>4, CardsAre DEF Holds
      <4> QED BY <1>1, <3>4, <4>1, FoundIs DEF Home
    <3>5. CASE from = start /\ ~Holds(start, p) /\ Holds(FirstCard, p)
      <4>1. FirstCard \in Cards /\ FirstCard # Nowhere
        BY <2>5, <3>5 DEF Holds
      <4>2. Has(FirstCard, p) /\ place[FirstCard] = "ready"
        BY <2>1, <3>1, <3>5, <4>1, CardsAre DEF Holds
      <4>3. CardOf(from) = FirstCard
        <5>1. start # FirstCard
          BY <3>5
        <5> QED BY <1>1, <3>5, <4>1, <4>2, <5>1, StartIs, CardsAre, CheckMCIs DEF CardOf
      <4>4. ~Has(from, p)
        BY <3>2, <3>5, CardsAre DEF Holds
      <4>5. d = FirstCard
        BY <1>1, <4>2, <4>3, <4>4, FoundIs
      <4> QED BY <3>5, <4>5 DEF Home
    <3>6. CASE from = start /\ ~Holds(start, p) /\ ~Holds(FirstCard, p)
      BY <3>6 DEF Home
    <3>7. CASE from # start
      <4>1. from = FirstCard /\ ~Holds(start, p)
        BY <2>2, <2>5, <3>7 DEF WhereInv, Homes
      <4>2. CASE Holds(FirstCard, p)
        <5>1. Has(from, p)
          BY <3>1, <4>1, <4>2 DEF Holds
        <5> QED BY <1>1, <4>1, <4>2, <5>1, FoundIs DEF Home
      <4>3. CASE ~Holds(FirstCard, p)
        BY <4>1, <4>3 DEF Home
      <4> QED BY <4>2, <4>3
    <3> QED BY <3>4, <3>5, <3>6, <3>7
  <2>7. d # Nowhere => d \in Homes
    <3>1. ASSUME d # Nowhere, d # start PROVE d = FirstCard
      <4>1. CASE d \in Cards
        BY <2>1, <4>1, FirstCardIs
      <4>2. CASE d \notin Cards
        <5>3. CardOf(from) \in Cards \cup {Nowhere}
          BY CheckMCIs DEF CardOf
        <5>4. d = from \/ d = CardOf(from)
          BY <1>1, <3>1, FoundIs
        <5> QED BY <2>5, <3>1, <4>2, <5>3, <5>4 DEF Homes
      <4> QED BY <4>1, <4>2
    <3> QED BY <3>1 DEF Homes
  <2>8. WhereInv'
    <3>1. dir' \in Homes
      BY <2>4, <2>5, <2>7
    <3>2. ASSUME p > 0 \/ maxCNF' > 1 PROVE Holds(dir', 0)
      <4>1. CASE mode = "off" /\ p = 0 /\ maxCNF' = setting'.pages
        <5>1. d # Nowhere
          BY <3>2, <4>1 DEF Loaded
        <5> QED BY <1>4, <2>4, <4>1, <5>1 DEF Holds
      <4>2. CASE mode = "main" /\ maxCNF' = maxCNF /\ (p > 0 => page > 0 \/ maxCNF > 1)
        <5>1. Holds(dir, 0)
          BY <2>2, <3>2, <4>2 DEF WhereInv
        <5>2. d \in {from, Nowhere}
          BY <2>1, <5>1, PagesAre DEF Holds
        <5> QED BY <2>4, <5>1, <5>2
      <4> QED BY <4>1, <4>2
    <3>3. ASSUME dir' # start, NEW q \in Pages PROVE ~Holds(start, q)
      <4>1. CASE from # start
        BY <2>2, <4>1 DEF WhereInv
      <4>2. CASE from = start
        BY <2>1, <2>4, <3>3, <4>2 DEF Holds
      <4> QED BY <4>1, <4>2
    <3> QED BY <1>2, <2>2, <3>1, <3>2, <3>3, SameHomes DEF WhereInv, given
  <2>9. KeptInv'
    <3>1. ASSUME kept[p] # NoColor PROVE setting'.color = kept[p]
      <4>1. Home(p) # Nowhere /\ file[Home(p)][p].s.color = kept[p]
        BY <2>2, <3>1 DEF KeptInv
      <4>2. d = Home(p) /\ d # Nowhere
        BY <2>6, <4>1
      <4>3. file[d][p].upto = Whole
        BY <1>4, <2>2, <4>2 DEF WholeInv
      <4> QED BY <4>1, <4>2, <4>3 DEF Loaded
    <3>2. chosen' = "no"
      BY DEF Loaded
    <3> QED BY <1>2, <2>2, <3>1, <3>2, SameHomes DEF KeptInv, given
  <2> QED BY <2>3, <2>8, <2>9
<1> QED BY <1>6, <1>7, <1>8, <1>9, <1>10, <1>11 DEF IInv

LEMMA BootStep == IInv /\ Boot => IInv'
<1> SUFFICES ASSUME IInv, Boot PROVE IInv'
  OBVIOUS
<1>1. TypeInv
  BY DEF IInv
<1>2. PICK d : d = Found(start, 0)
  OBVIOUS
<1>3. /\ mode = "off" /\ Load(0, start) /\ maxCNF' = setting'.pages /\ mode' = "main"
      /\ UNCHANGED <<disk, tmpsetting, opened, rgb, page, kept>>
  BY DEF Boot
<1>4. page = 0 /\ dir = start
  BY <1>1, <1>3 DEF TypeInv
<1>5. Loaded(0, start, d)
  BY <1>1, <1>2, <1>3, LoadIs, PagesAre, StartIs
<1>6. maxCNF' \in 1 .. PageCount
  BY <1>3, <1>5 DEF Loaded, SettingType
<1> QED BY <1>1, <1>2, <1>3, <1>4, <1>5, <1>6, LoadedStep, PagesAre, StartIs

LEMMA ReloadStep ==
    ASSUME IInv, NEW p \in Pages, Reload(p), p > 0 => page > 0 \/ maxCNF > 1
    PROVE  IInv'
<1>1. TypeInv
  BY DEF IInv
<1>2. dir \in Dirs /\ maxCNF \in 1 .. PageCount
  BY <1>1 DEF TypeInv
<1>3. PICK d : d = Found(dir, p)
  OBVIOUS
<1>4. Loaded(p, dir, d)
  BY <1>1, <1>2, <1>3, LoadIs DEF Reload
<1> QED BY <1>2, <1>3, <1>4, LoadedStep DEF Reload

LEMMA ReloadsStep == IInv /\ (DecConfig \/ IncConfig \/ LoadCNF) => IInv'
<1> SUFFICES ASSUME IInv, DecConfig \/ IncConfig \/ LoadCNF PROVE IInv'
  OBVIOUS
<1>1. page \in Nat /\ page < PageCount /\ maxCNF \in 1 .. PageCount /\ page \in Pages
  BY PagesAre DEF IInv, TypeInv
<1>2. CASE DecConfig
  <2>1. PICK p : p = IF page > 0 THEN page - 1 ELSE maxCNF - 1
    OBVIOUS
  <2>2. p \in Pages /\ maxCNF > 1 /\ Reload(p)
    BY <1>1, <1>2, <2>1, PagesAre DEF DecConfig, Pages
  <2> QED BY <2>2, ReloadStep
<1>3. CASE IncConfig
  <2>1. PICK p : p = IF page < maxCNF - 1 THEN page + 1 ELSE 0
    OBVIOUS
  <2>2. p \in Pages /\ maxCNF > 1 /\ Reload(p)
    BY <1>1, <1>3, <2>1, PagesAre DEF IncConfig, Pages
  <2> QED BY <2>2, ReloadStep
<1>4. CASE LoadCNF
  BY <1>1, <1>4, ReloadStep DEF LoadCNF
<1> QED BY <1>2, <1>3, <1>4

-----------------------------------------------------------------------------
(* Saves *)

LEMMA TargetIs ==
    ASSUME TypeInv, NEW t, t = Target
    PROVE  /\ t \in {dir, Nowhere} \cup Cards
           /\ t # Nowhere => t \in Dirs /\ Writable(t)
           /\ (dir = start /\ Has(start, page)) => t = start
<1>1. dir \in Dirs /\ CheckMC \in Cards \cup {Nowhere} /\ CardOf(dir) \in Cards \cup {Nowhere}
  BY CheckMCIs DEF TypeInv, CardOf
<1>2. PICK second : second = SysConfOr(CheckMC, dir)
  OBVIOUS
<1>3. PICK first : first = FirstChoice
  OBVIOUS
<1>4. second \in {dir} \cup Cards /\ first \in {dir} \cup Cards
  BY <1>1, <1>2, <1>3 DEF SysConfOr, FirstChoice
<1>5. t = CASE Writable(first)                       -> first
            [] ~Writable(first) /\ Writable(second) -> second
            [] OTHER                                -> Nowhere
  BY <1>2, <1>3 DEF Target
<1>6. /\ t \in {first, second, Nowhere}
      /\ Writable(first) => t = first
      /\ t = Nowhere \/ Writable(t)
  <2>1. CASE Writable(first)
    <3>1. t = first
      BY <1>5, <2>1
    <3> QED BY <2>1, <3>1
  <2>2. CASE ~Writable(first) /\ Writable(second)
    <3>1. t = second
      BY <1>5, <2>2
    <3> QED BY <2>2, <3>1
  <2>3. CASE ~Writable(first) /\ ~Writable(second)
    <3>1. t = Nowhere
      BY <1>5, <2>3
    <3> QED BY <2>3, <3>1
  <2> QED BY <2>1, <2>2, <2>3
<1>7. ASSUME dir = start, Has(start, page) PROVE t = start
  <2>1. first = start
    BY <1>3, <1>7 DEF FirstChoice
  <2>2. Writable(start)
    BY <1>7 DEF Writable, Has
  <2> QED BY <1>6, <2>1, <2>2
<1> QED BY <1>1, <1>4, <1>6, <1>7, CardsAre

\* The page is on the card, the rest of the files as before.
LEMMA SaveIs ==
    ASSUME TypeInv, NEW upto \in 0 .. Whole, Save(upto), NEW t, t = Target
    PROVE  /\ t \in Dirs /\ page \in Pages
           /\ file' \in [Dirs -> [Pages -> FileType \cup {NoFile}]]
           /\ file'[t][page] = Written(setting, upto)
           /\ \A d \in Dirs, p \in Pages :
                (d # t \/ p # page) => file'[d][p] = file[d][p]
           /\ UNCHANGED <<skinFile, place, given, langFile>>
<1>1. t \in Dirs /\ page \in Pages
  BY TargetIs DEF Save, TypeInv
<1>2. PICK f : f = Written(setting, upto)
  OBVIOUS
<1>3. f \in FileType
  BY <1>2 DEF FileType, Written, TypeInv
<1>4. file' = [file EXCEPT ![t] = [file[t] EXCEPT ![page] = f]]
  BY <1>2 DEF Save
<1>5. file \in [Dirs -> [Pages -> FileType \cup {NoFile}]]
  BY DEF TypeInv
<1>6. PICK row : row = [file[t] EXCEPT ![page] = f]
  OBVIOUS
<1>7. /\ row \in [Pages -> FileType \cup {NoFile}] /\ row[page] = f
      /\ \A p \in Pages : p # page => row[p] = file[t][p]
  BY <1>1, <1>3, <1>5, <1>6
<1>8. /\ file' \in [Dirs -> [Pages -> FileType \cup {NoFile}]] /\ file'[t] = row
      /\ \A d \in Dirs : d # t => file'[d] = file[d]
  BY <1>1, <1>4, <1>5, <1>6, <1>7
<1> QED BY <1>1, <1>2, <1>7, <1>8 DEF Save

LEMMA CausesOfSave ==
    ASSUME TypeInv, NEW t, t = Target
    PROVE  /\ (\E d \in Dirs : file[d][page].there /\ place[d] # "ready") => "away" \in SaveCause
           /\ (t \in Cards /\ t # CardSlots[1]) => "second_card" \in SaveCause
BY DEF SaveCause, AwayCause, SecondCause

\* What any save keeps, whether or not all of it is written.
LEMMA SaveKeeps ==
    ASSUME IInv, NEW upto \in 0 .. Whole, Save(upto)
    PROVE  /\ BareInv'
           /\ \A d \in Dirs, p \in Pages : file'[d][p].there =>
                file'[d][p].s.title \in {NoTitle, p}
<1>1. TypeInv /\ TitleInv /\ BareInv
  BY DEF IInv
<1>2. PICK t : t = Target
  OBVIOUS
<1>3. /\ t \in Dirs /\ file'[t][page] = Written(setting, upto) /\ place' = place
      /\ \A d \in Dirs, p \in Pages : (d # t \/ p # page) => file'[d][p] = file[d][p]
  BY <1>1, <1>2, SaveIs
<1>4. place[t] = "ready"
  BY <1>1, <1>2, <1>3, TargetIs, CardsAre DEF Writable
<1>5. Written(setting, upto).s = setting
  BY DEF Written
<1>6. ASSUME NEW d \in Dirs, NEW p \in Pages, file'[d][p].there
      PROVE  place'[d] # "bare" /\ file'[d][p].s.title \in {NoTitle, p}
  <2>1. CASE d = t /\ p = page
    BY <1>1, <1>3, <1>4, <1>5, <2>1 DEF TitleInv
  <2>2. CASE d # t \/ p # page
    BY <1>1, <1>3, <1>6, <2>2 DEF TitleInv, BareInv
  <2> QED BY <2>1, <2>2
<1> QED BY <1>6 DEF BareInv

\* Back in the main menu the settings are those of the menu left.
LEMMA BackIs ==
    ASSUME IInv, BackToMain
    PROVE  /\ mode' = "main" /\ tmpsetting' = Defaults /\ opened' = Defaults
           /\ UNCHANGED <<rgb, page, maxCNF, dir, lang>>
           /\ setting' \in SettingType /\ setting'.misc.slashes = 1
           /\ setting'.title = setting.title /\ setting'.color = setting.color
           /\ setting'.path = setting.path /\ SelectSet(setting')
           /\ Named(setting) => Named(setting')
<1>1. setting \in SettingType /\ setting.misc.slashes = 1
  BY DEF IInv, TypeInv
<1>2. PICK s : s = setting'
  OBVIOUS
<1>3. s = SetLaunchKeys(setting)
  BY <1>2 DEF BackToMain
<1>4. /\ s \in SettingType /\ s.misc = setting.misc /\ s.color = setting.color
      /\ s.title = setting.title /\ s.path = setting.path /\ s.lang = setting.lang
      /\ s.keys["circle"] = setting.keys["circle"] /\ SelectSet(s)
      /\ setting.defined => s = setting
      /\ s.defined = setting.defined
  BY <1>1, <1>3, SetLaunchKeysIs
<1>5. Named(setting) => Named(s)
  BY <1>4, KeyIs DEF Named, SelectSet, Keys, Programs
<1> QED BY <1>1, <1>2, <1>4, <1>5 DEF BackToMain

LEMMA OkStep == IInv /\ Ok => IInv'
<1> SUFFICES ASSUME IInv, Ok PROVE IInv'
  OBVIOUS
<1>1. TypeInv /\ NamesInv /\ MenuInv /\ TitleInv /\ BareInv /\ ComesBackInv
  BY DEF IInv
<1>2. /\ mode = "config" /\ Save(Whole) /\ BackToMain /\ chosen' = "no"
      /\ kept' = KeptNow /\ mishaps' = mishaps \cup SaveCause
  BY DEF Ok
<1>3. Whole \in 0 .. Whole
  BY DEF Whole
<1>4. PICK t : t = Target
  OBVIOUS
<1>5. /\ t \in Dirs /\ page \in Pages
      /\ file' \in [Dirs -> [Pages -> FileType \cup {NoFile}]]
      /\ file'[t][page] = Written(setting, Whole)
      /\ \A d \in Dirs, p \in Pages :
           (d # t \/ p # page) => file'[d][p] = file[d][p]
      /\ UNCHANGED <<skinFile, place, given, langFile>>
  BY <1>1, <1>2, <1>3, <1>4, SaveIs
<1>6. /\ mode' = "main" /\ tmpsetting' = Defaults /\ opened' = Defaults
      /\ UNCHANGED <<rgb, page, maxCNF, dir, lang>>
      /\ setting' \in SettingType /\ setting'.misc.slashes = 1
      /\ setting'.title = setting.title /\ setting'.color = setting.color
      /\ setting'.path = setting.path /\ SelectSet(setting')
      /\ Named(setting) => Named(setting')
  BY <1>2, BackIs
<1>7. /\ file'[t][page].there /\ file'[t][page].upto = Whole
      /\ file'[t][page].s = setting
  BY <1>5 DEF Written
<1>8. setting.color \in Colours /\ kept \in [Pages -> Colours \cup {NoColor}]
  BY <1>1 DEF TypeInv, SettingType, Colours
<1>9. /\ kept' \in [Pages -> Colours \cup {NoColor}]
      /\ \A p \in Pages : p # page => kept'[p] = kept[p]
      /\ kept'[page] = IF chosen = "no" THEN kept[page] ELSE setting.color
  BY <1>2, <1>5, <1>8 DEF KeptNow
<1>10. TypeInv'
  BY <1>1, <1>5, <1>6, <1>9, <1>2, DefaultsAre DEF TypeInv, FirstCard, given
<1>11. NamesInv'
  <2> SUFFICES ASSUME NamesClean'
               PROVE  /\ Named(setting') /\ Named(tmpsetting')
                      /\ \A e \in Dirs, q \in Pages : file'[e][q].there =>
                           file'[e][q].upto = Whole /\ Named(file'[e][q].s)
    BY <1>5, SameNames DEF NamesInv, NamesClean, Without, given, disk
  <2>1. NamesClean
    BY <1>2 DEF NamesClean, Without
  <2>2. /\ Named(setting)
        /\ \A e \in Dirs, q \in Pages : file[e][q].there =>
             file[e][q].upto = Whole /\ Named(file[e][q].s)
    BY <1>1, <2>1 DEF NamesInv, NamesClean
  <2>3. ASSUME NEW e \in Dirs, NEW q \in Pages, file'[e][q].there
        PROVE  file'[e][q].upto = Whole /\ Named(file'[e][q].s)
    <3>1. CASE e = t /\ q = page
      BY <1>7, <2>2, <3>1
    <3>2. CASE e # t \/ q # page
      BY <1>5, <2>2, <2>3, <3>2
    <3> QED BY <3>1, <3>2
  <2> QED BY <1>6, <2>2, <2>3, DefaultsAre
<1>12. MenuInv'
  BY <1>5, <1>6, SameNames DEF MenuInv, given
<1>13. BareInv' /\ TitleInv'
  <2>1. /\ BareInv'
        /\ \A d \in Dirs, p \in Pages : file'[d][p].there =>
             file'[d][p].s.title \in {NoTitle, p}
    BY <1>2, <1>3, SaveKeeps
  <2> QED BY <1>1, <1>6, <2>1, DefaultsAre DEF TitleInv
<1>14. ComesBackInv'
  <2> SUFFICES ASSUME Without(Causes)' PROVE (WholeInv /\ WhereInv /\ KeptInv)'
    BY DEF ComesBackInv
  <2>1. /\ Without(Causes)
        /\ \A d \in Dirs : file[d][page].there => place[d] = "ready"
        /\ t \in Cards => t = CardSlots[1]
    BY <1>1, <1>2, <1>4, CausesOfSave DEF Without, Causes
  <2>2. WholeInv /\ WhereInv /\ KeptInv
    BY <1>1, <2>1 DEF ComesBackInv
  <2>3. WholeInv'
    <3>1. ASSUME NEW e \in Dirs, NEW q \in Pages, file'[e][q].there
          PROVE  file'[e][q].upto = Whole /\ file'[e][q].s.path = Nowhere
      <4>1. CASE e = t /\ q = page
        BY <1>7, <2>2, <4>1 DEF WholeInv
      <4>2. CASE e # t \/ q # page
        BY <1>5, <2>2, <3>1, <4>2 DEF WholeInv
      <4> QED BY <4>1, <4>2
    <3> QED BY <1>6, <2>2, <3>1, DefaultsAre DEF WholeInv
  <2>4. /\ t # Nowhere /\ t \in {dir} \cup Cards
        /\ (dir = start /\ Has(start, page)) => t = start
    BY <1>1, <1>4, <1>5, TargetIs, CardsAre
  <2>5. t \in Homes /\ (t = start => dir = start)
    <3>1. CASE t \in Cards
      BY <1>1, <2>1, <2>2, <2>4, <3>1, StartIs, FirstCardIs, CardsAre DEF Homes, WhereInv
    <3>2. CASE t \notin Cards
      BY <2>2, <2>4, <3>2 DEF WhereInv
    <3> QED BY <3>1, <3>2
  <2>6. t # start => ~Holds(start, page)
    <3>1. ASSUME t # start, Holds(start, page) PROVE FALSE
      <4>1. dir = start
        BY <1>5, <2>2, <3>1 DEF WhereInv
      <4>2. Has(start, page)
        BY <1>1, <2>1, <3>1, StartIs DEF Holds, Has
      <4> QED BY <2>4, <3>1, <4>1, <4>2
    <3> QED BY <3>1
  <2>7. /\ t \in {start, FirstCard} /\ start \in Dirs /\ start # Nowhere
        /\ FirstCard \in Dirs \cup {Nowhere} /\ Nowhere \notin Dirs
    BY <1>1, <2>5, StartIs, FirstCardIs, CardsAre DEF Homes, Nowhere
  <2> DEFINE There(d, p) == d # Nowhere /\ file'[d][p].there
             NewHome(p) == IF There(start, p) THEN start
                           ELSE IF There(FirstCard, p) THEN FirstCard ELSE Nowhere
  <2>8. /\ \A d, p : Holds(d, p)' <=> There(d, p)
        /\ \A p : Home(p)' = NewHome(p)
        /\ FirstCard' = FirstCard /\ Homes' = Homes
    BY <1>5 DEF Holds, Home, FirstCard, Homes, Nowhere, given
  <2>9. \A d \in Dirs, p \in Pages : Holds(d, p) => There(d, p)
    BY <1>5, <1>7 DEF Holds
  <2>10. \A d \in Dirs, p \in Pages : There(d, p) => Holds(d, p) \/ (d = t /\ p = page)
    BY <1>5, <1>7 DEF Holds
  <2>11. WhereInv'
    <3>1. dir \in Dirs /\ dir \in Homes
      BY <1>1, <2>2 DEF TypeInv, WhereInv
    <3>2. ASSUME page > 0 \/ maxCNF > 1 PROVE There(dir, 0)
      <4>1. Holds(dir, 0)
        BY <2>2, <3>2 DEF WhereInv
      <4> QED BY <2>9, <3>1, <4>1, PagesAre
    <3>3. ASSUME dir # start, NEW p \in Pages PROVE ~There(start, p)
      BY <2>2, <2>5, <2>7, <2>10, <3>3 DEF WhereInv
    <3>4. ASSUME NEW p \in Pages, There(start, p) PROVE There(start, 0)
      <4>1. CASE Holds(start, p)
        BY <2>2, <2>7, <2>9, <4>1, PagesAre DEF WhereInv
      <4>2. CASE t = start /\ p = page /\ page = 0
        BY <3>4, <4>2
      <4>3. CASE t = start /\ p = page /\ page # 0
        <5>1. page > 0
          BY <1>5, <4>3, PagesAre
        <5> QED BY <2>5, <3>2, <4>3, <5>1
      <4> QED BY <2>7, <2>10, <3>4, <4>1, <4>2, <4>3
    <3> QED BY <1>5, <1>6, <2>8, <3>1, <3>2, <3>3, <3>4 DEF WhereInv, given
  <2>12. NewHome(page) = t
    <3>1. There(t, page)
      BY <1>7, <2>4
    <3>2. CASE t = start
      BY <3>1, <3>2
    <3>3. CASE t # start
      <4>1. ~There(start, page)
        BY <1>5, <2>6, <2>7, <2>10, <3>3
      <4> QED BY <2>7, <3>1, <3>3, <4>1
    <3> QED BY <3>2, <3>3
  <2>13. ASSUME NEW p \in Pages, p # page
         PROVE  /\ NewHome(p) = Home(p)
                /\ Home(p) # Nowhere => file'[Home(p)][p] = file[Home(p)][p]
    <3>1. \A d \in Dirs : There(d, p) <=> Holds(d, p)
      BY <2>9, <2>10, <2>13
    <3>2. There(FirstCard, p) <=> Holds(FirstCard, p)
      BY <2>7, <3>1 DEF Holds
    <3>3. NewHome(p) = Home(p)
      BY <2>7, <3>1, <3>2 DEF Home
    <3>4. Home(p) \in {start, FirstCard, Nowhere}
      BY DEF Home
    <3> QED BY <1>5, <2>7, <2>13, <3>3, <3>4
  <2>14. setting.color = kept'[page] \/ kept'[page] = NoColor
    BY <1>2, <1>9, <2>2 DEF KeptInv
  <2>15. ASSUME NEW p \in Pages, kept'[p] # NoColor
         PROVE  NewHome(p) # Nowhere /\ file'[NewHome(p)][p].s.color = kept'[p]
    <3>1. CASE p = page
      BY <1>7, <2>4, <2>12, <2>14, <2>15, <3>1
    <3>2. CASE p # page
      BY <1>9, <2>2, <2>13, <2>15, <3>2 DEF KeptInv
    <3> QED BY <3>1, <3>2
  <2>16. KeptInv'
    BY <1>2, <1>6, <2>8, <2>14, <2>15 DEF KeptInv
  <2> QED BY <2>3, <2>11, <2>16
<1> QED BY <1>10, <1>11, <1>12, <1>13, <1>14 DEF IInv

\* A file that is cut is one of the causes named.
LEMMA CutStep == IInv /\ (OkShort \/ PowerFailsInSave) => IInv'
<1> SUFFICES ASSUME IInv, OkShort \/ PowerFailsInSave PROVE IInv'
  OBVIOUS
<1>1. TypeInv /\ TitleInv
  BY DEF IInv
<1>2. PICK upto \in 0 .. Whole - 1 : Save(upto)
  BY DEF OkShort, PowerFailsInSave
<1>3. upto \in 0 .. Whole
  BY DEF Whole
<1>4. PICK t : t = Target
  OBVIOUS
<1>5. /\ file' \in [Dirs -> [Pages -> FileType \cup {NoFile}]]
      /\ UNCHANGED <<skinFile, place, given, langFile>>
  BY <1>1, <1>2, <1>3, <1>4, SaveIs
<1>6. /\ BareInv'
      /\ \A d \in Dirs, p \in Pages : file'[d][p].there =>
           file'[d][p].s.title \in {NoTitle, p}
  BY <1>2, <1>3, SaveKeeps
<1>7. "cut" \in mishaps' /\ kept' = kept
  BY DEF OkShort, PowerFailsInSave
<1>8. NamesInv' /\ ComesBackInv'
  BY <1>7 DEF NamesInv, ComesBackInv, Without, Causes
<1>9. CASE OkShort
  <2>1. BackToMain /\ chosen' = "no"
    BY <1>9 DEF OkShort
  <2>2. /\ mode' = "main" /\ tmpsetting' = Defaults /\ opened' = Defaults
        /\ UNCHANGED <<rgb, page, maxCNF, dir, lang>>
        /\ setting' \in SettingType /\ setting'.misc.slashes = 1
        /\ setting'.title = setting.title /\ SelectSet(setting')
    BY <2>1, BackIs
  <2>3. TypeInv'
    BY <1>1, <1>5, <1>7, <2>1, <2>2, DefaultsAre DEF TypeInv, FirstCard, given
  <2>4. MenuInv' /\ TitleInv'
    BY <1>1, <1>5, <1>6, <2>2, DefaultsAre, SameNames DEF MenuInv, TitleInv, given
  <2> QED BY <1>6, <1>8, <2>3, <2>4 DEF IInv
<1>10. CASE PowerFailsInSave
  <2>1. Off
    BY <1>10 DEF PowerFailsInSave
  <2>2. TypeInv'
    BY <1>1, <1>5, <1>7, <2>1, DefaultsAre, PagesAre, CardsAre
       DEF TypeInv, Off, Languages, FirstCard, given
  <2>3. MenuInv' /\ TitleInv'
    BY <1>5, <1>6, <2>1, DefaultsAre, SameNames DEF MenuInv, TitleInv, Off, given
  <2> QED BY <1>6, <1>8, <2>2, <2>3 DEF IInv
<1> QED BY <1>9, <1>10

-----------------------------------------------------------------------------
(* The other steps *)

\* A step that changes no file, and of the settings at most what is in force.
LEMMA QuietStep ==
    ASSUME IInv, TypeInv', MenuInv', BareInv', UNCHANGED <<file, given, page, kept>>,
           mishaps \subseteq mishaps',
           (NamesClean' /\ Named(setting) /\ Named(tmpsetting)) =>
             Named(setting') /\ Named(tmpsetting'),
           setting'.title \in {NoTitle, page}, tmpsetting'.title \in {NoTitle, page},
           Without(Causes)' =>
             /\ UNCHANGED <<dir, maxCNF>>
             /\ WholeInv => setting'.path = Nowhere /\ tmpsetting'.path = Nowhere,
           KeptInv =>
             /\ (mode' # "off" /\ chosen' = "no" /\ kept[page] # NoColor) =>
                  setting'.color = kept[page]
             /\ (mode' \in {"config", "screen"} /\ chosen' # "held" /\ kept[page] # NoColor) =>
                  tmpsetting'.color = kept[page]
             /\ mode' = "main" => chosen' # "menu"
    PROVE  IInv'
<1>1. TypeInv /\ NamesInv /\ TitleInv /\ ComesBackInv
  BY DEF IInv
<1>2. NamesInv'
  <2> SUFFICES ASSUME NamesClean'
               PROVE  /\ Named(setting') /\ Named(tmpsetting')
                      /\ \A e \in Dirs, q \in Pages : file'[e][q].there =>
                           file'[e][q].upto = Whole /\ Named(file'[e][q].s)
    BY SameNames DEF NamesInv, NamesClean, Without, given, disk
  <2>1. NamesClean
    BY DEF NamesClean, Without
  <2>2. /\ Named(setting) /\ Named(tmpsetting)
        /\ \A e \in Dirs, q \in Pages : file[e][q].there =>
             file[e][q].upto = Whole /\ Named(file[e][q].s)
    BY <1>1, <2>1 DEF NamesInv, NamesClean
  <2> QED BY <2>2
<1>3. TitleInv'
  BY <1>1 DEF TitleInv
<1>4. ComesBackInv'
  <2> SUFFICES ASSUME Without(Causes)' PROVE (WholeInv /\ WhereInv /\ KeptInv)'
    BY DEF ComesBackInv
  <2>1. Without(Causes)
    BY DEF Without
  <2>2. WholeInv /\ WhereInv /\ KeptInv
    BY <1>1, <2>1 DEF ComesBackInv
  <2>3. WholeInv'
    BY <2>1, <2>2 DEF WholeInv
  <2>4. WhereInv'
    BY <2>2, SameHomes DEF WhereInv, given
  <2>5. KeptInv'
    BY <2>2, SameHomes DEF KeptInv, given
  <2> QED BY <2>3, <2>4, <2>5
<1> QED BY <1>2, <1>3, <1>4 DEF IInv

LEMMA OkNowhereStep == IInv /\ OkNowhere => IInv'
<1> SUFFICES ASSUME IInv, OkNowhere PROVE IInv'
  OBVIOUS
<1>1. TypeInv /\ BareInv /\ TitleInv
  BY DEF IInv
<1>2. /\ mode = "config" /\ BackToMain /\ UNCHANGED <<disk, kept, mishaps>>
      /\ chosen' = IF chosen = "menu" THEN "held" ELSE chosen
  BY DEF OkNowhere
<1>3. /\ mode' = "main" /\ tmpsetting' = Defaults /\ opened' = Defaults
      /\ UNCHANGED <<rgb, page, maxCNF, dir, lang>>
      /\ setting' \in SettingType /\ setting'.misc.slashes = 1
      /\ setting'.title = setting.title /\ setting'.color = setting.color
      /\ setting'.path = setting.path /\ SelectSet(setting')
      /\ Named(setting) => Named(setting')
  BY <1>2, BackIs
<1>4. TypeInv'
  BY <1>1, <1>2, <1>3, DefaultsAre DEF TypeInv, disk, FirstCard, given
<1>5. MenuInv' /\ BareInv'
  BY <1>1, <1>2, <1>3, SameNames DEF MenuInv, BareInv, disk, given
<1>6. UNCHANGED <<file, given, page, kept, mishaps>> /\ mishaps \subseteq mishaps'
  BY <1>2, <1>3 DEF disk
<1>7. setting'.title \in {NoTitle, page} /\ tmpsetting'.title \in {NoTitle, page}
  BY <1>1, <1>3, DefaultsAre DEF TitleInv
<1>8. WholeInv => setting'.path = Nowhere /\ tmpsetting'.path = Nowhere
  BY <1>3, DefaultsAre DEF WholeInv
<1>9. KeptInv =>
        /\ (mode' # "off" /\ chosen' = "no" /\ kept[page] # NoColor) =>
             setting'.color = kept[page]
        /\ mode' = "main" => chosen' # "menu"
  BY <1>2, <1>3 DEF KeptInv
<1>10. Named(setting) => Named(setting') /\ Named(tmpsetting')
  BY <1>3, DefaultsAre
<1>11. mode' \notin {"config", "screen"}
  BY <1>3
<1> QED BY <1>3, <1>4, <1>5, <1>6, <1>7, <1>8, <1>9, <1>10, <1>11, QuietStep

LEMMA CancelStep == IInv /\ Cancel => IInv'
<1> SUFFICES ASSUME IInv, Cancel PROVE IInv'
  OBVIOUS
<1>1. TypeInv /\ BareInv /\ TitleInv /\ tmpsetting \in SettingType
  BY DEF IInv, TypeInv
<1>2. /\ mode = "config" /\ mode' = "main" /\ lang' = LanguageOf(tmpsetting)
      /\ tmpsetting' = Defaults /\ opened' = Defaults
      /\ chosen' = IF chosen = "menu" THEN "no" ELSE chosen
      /\ mishaps' = mishaps \cup LanguageCause(tmpsetting)
      /\ UNCHANGED <<disk, rgb, page, maxCNF, dir, kept>>
      /\ setting' = SetLaunchKeys(Renamed(tmpsetting))
  BY DEF Cancel
<1>3. PICK r \in SettingType : r = Renamed(tmpsetting)
  BY <1>1, RenamedIs
<1>4. /\ r.misc.slashes = 1 /\ r.misc.in = LanguageOf(tmpsetting) /\ r.color = tmpsetting.color
      /\ r.title = tmpsetting.title /\ r.path = tmpsetting.path /\ r.lang = tmpsetting.lang
      /\ r.defined = tmpsetting.defined
  BY <1>1, <1>3, RenamedIs
<1>5. PICK s : s = SetLaunchKeys(r)
  OBVIOUS
<1>6. /\ s \in SettingType /\ s.misc = r.misc /\ s.color = r.color /\ s.title = r.title
      /\ s.path = r.path /\ s.lang = r.lang /\ SelectSet(s) /\ (r.defined => s = r)
      /\ s.keys["circle"] = r.keys["circle"] /\ s.defined = r.defined
  BY <1>5, SetLaunchKeysIs
<1>7. setting' = s
  BY <1>2, <1>3, <1>5
<1>8. LanguageOf(tmpsetting) \in Languages
      /\ (LanguageOf(tmpsetting) # tmpsetting.lang => "lang_gone" \in mishaps')
  BY <1>1, <1>2, LanguageIs
<1>9. TypeInv'
  BY <1>1, <1>2, <1>4, <1>6, <1>7, <1>8, DefaultsAre DEF TypeInv, disk, FirstCard, given
<1>10. MenuInv' /\ BareInv'
  BY <1>1, <1>2, <1>6, <1>7, SameNames DEF MenuInv, BareInv, disk, given
<1>11. ASSUME NamesClean', Named(tmpsetting) PROVE Named(s)
  <2>1. LanguageOf(tmpsetting) = tmpsetting.lang
    BY <1>8, <1>11 DEF NamesClean, Without
  <2>2. ASSUME NEW k \in Keys, r.keys[k].to \in Programs
        PROVE  Matches(r.keys[k], tmpsetting.lang)
    <3>1. tmpsetting.keys[k].to \in Programs
      BY <1>1, <1>3, <2>2, RenamedKeys
    <3>2. Matches(tmpsetting.keys[k], tmpsetting.lang)
      BY <1>11, <3>1 DEF Named
    <3> QED BY <1>1, <1>3, <2>1, <2>2, <3>2, RenamedKeys
  <2> QED BY <1>4, <1>6, <2>1, <2>2, KeyIs DEF Named, SelectSet, Keys, Programs
<1>12. UNCHANGED <<file, given, page, kept, dir, maxCNF>> /\ mishaps \subseteq mishaps'
  BY <1>2 DEF disk
<1>13. setting'.title \in {NoTitle, page} /\ tmpsetting'.title \in {NoTitle, page}
  BY <1>1, <1>2, <1>4, <1>6, <1>7, DefaultsAre DEF TitleInv
<1>14. WholeInv => setting'.path = Nowhere /\ tmpsetting'.path = Nowhere
  BY <1>2, <1>4, <1>6, <1>7, DefaultsAre DEF WholeInv
<1>15. KeptInv =>
        /\ (mode' # "off" /\ chosen' = "no" /\ kept[page] # NoColor) =>
             setting'.color = kept[page]
        /\ mode' = "main" => chosen' # "menu"
  BY <1>2, <1>4, <1>6, <1>7 DEF KeptInv
<1>16. ASSUME NamesClean' PROVE Named(setting')
  <2>1. NamesClean
    BY <1>12, <1>16 DEF NamesClean, Without
  <2>2. Named(tmpsetting)
    BY <2>1 DEF IInv, NamesInv, NamesClean
  <2> QED BY <1>7, <1>11, <1>16, <2>2
<1>17. Without(Causes)' => Without(Causes)
  BY <1>12 DEF Without
<1> QED BY <1>2, <1>9, <1>10, <1>12, <1>13, <1>14, <1>15, <1>16, <1>17, DefaultsAre, QuietStep

LEMMA OffStep == IInv /\ PowerOff => IInv'
<1> SUFFICES ASSUME IInv, PowerOff PROVE IInv'
  OBVIOUS
<1>1. TypeInv /\ BareInv /\ NamesInv /\ TitleInv /\ ComesBackInv
  BY DEF IInv
<1>2. Off /\ UNCHANGED <<file, skinFile, place, given, kept, mishaps>>
  BY DEF PowerOff, disk
<1>3. TypeInv'
  BY <1>1, <1>2, DefaultsAre, PagesAre, CardsAre DEF TypeInv, Off, Languages, FirstCard, given
<1>4. NamesInv'
  BY <1>1, <1>2, DefaultsAre, SameNames DEF NamesInv, Without, Off, given
<1>5. MenuInv' /\ TitleInv' /\ BareInv'
  BY <1>1, <1>2, DefaultsAre, SameNames DEF MenuInv, TitleInv, BareInv, Off, given
<1>6. ComesBackInv'
  <2> SUFFICES ASSUME Without(Causes)' PROVE (WholeInv /\ WhereInv /\ KeptInv)'
    BY DEF ComesBackInv
  <2>1. WholeInv /\ WhereInv /\ KeptInv
    BY <1>1, <1>2 DEF ComesBackInv, Without
  <2>2. WholeInv'
    BY <1>2, <2>1, DefaultsAre DEF WholeInv, Off
  <2>3. WhereInv'
    <3>1. start \in Homes
      BY <1>1, StartIs
    <3> QED BY <1>2, <2>1, <3>1, SameHomes DEF WhereInv, Off, given
  <2>4. KeptInv'
    BY <1>2, <2>1, SameHomes DEF KeptInv, given, Off
  <2> QED BY <2>2, <2>3, <2>4
<1> QED BY <1>3, <1>4, <1>5, <1>6 DEF IInv

LEMMA ResetStep == IInv /\ ResetConfig => IInv'
<1> SUFFICES ASSUME IInv, ResetConfig PROVE IInv'
  OBVIOUS
<1>1. TypeInv /\ MenuInv /\ BareInv /\ TitleInv
  BY DEF IInv
<1>2. /\ mode = "main" /\ chosen' = "held" /\ setting' = SetLaunchKeys(Defaults)
      /\ UNCHANGED <<disk, mode, tmpsetting, opened, rgb, page, maxCNF, dir, lang, kept, mishaps>>
  BY DEF ResetConfig
<1>3. PICK s : s = SetLaunchKeys(Defaults)
  OBVIOUS
<1>4. /\ s \in SettingType /\ s.misc.slashes = 1 /\ s.title = NoTitle /\ s.path = Nowhere
      /\ SelectSet(s) /\ s.keys["circle"] = Defaults.keys["circle"]
      /\ s.misc = Defaults.misc /\ s.lang = Defaults.lang /\ ~s.defined
  BY <1>3, DefaultsAre, SetLaunchKeysIs
<1>5. Named(s)
  BY <1>4, DefaultsAre, KeyIs DEF Named, SelectSet, Keys, Programs
<1>6. TypeInv'
  BY <1>1, <1>2, <1>3, <1>4 DEF TypeInv, disk, FirstCard, given
<1>7. MenuInv' /\ BareInv' /\ file' = file /\ given' = given
  BY <1>1, <1>2, <1>3, <1>4, SameNames DEF MenuInv, BareInv, disk, given
<1>8. tmpsetting' = tmpsetting /\ tmpsetting.title \in {NoTitle, page}
      /\ (WholeInv => tmpsetting.path = Nowhere)
  BY <1>1, <1>2 DEF TitleInv, WholeInv
<1> QED BY <1>2, <1>3, <1>4, <1>5, <1>6, <1>7, <1>8, QuietStep

LEMMA SetPathStep == IInv /\ SetCNFPath => IInv'
<1> SUFFICES ASSUME IInv, SetCNFPath PROVE IInv'
  OBVIOUS
<1>1. TypeInv /\ MenuInv /\ BareInv /\ TitleInv
  BY DEF IInv
<1>2. /\ mode = "main" /\ setting' = [setting EXCEPT !.path = "path"]
      /\ dir' = Validated(setting', dir) /\ mishaps' = mishaps \cup {"path"}
      /\ UNCHANGED <<disk, mode, tmpsetting, opened, rgb, page, maxCNF, lang, chosen, kept>>
  BY DEF SetCNFPath
<1>3. setting \in SettingType
  BY <1>1 DEF TypeInv
<1>4. /\ setting' \in SettingType /\ setting'.misc = setting.misc /\ setting'.keys = setting.keys
      /\ setting'.defined = setting.defined
      /\ (Named(setting) => Named(setting'))
  BY <1>2, <1>3, SettingIs
<1>5. setting'.title = setting.title /\ setting'.color = setting.color /\ setting'.path = "path"
  BY <1>2, <1>3 DEF SettingType
<1>6. dir' \in Dirs
  BY <1>1, <1>2, <1>5, CardsAre DEF Validated, TypeInv
<1>7. TypeInv'
  BY <1>1, <1>2, <1>4, <1>6 DEF TypeInv, disk, FirstCard, given
<1>8. MenuInv' /\ BareInv' /\ file' = file /\ given' = given
  <2>1. SelectSet(setting')
    BY <1>1, <1>2, <1>4 DEF MenuInv, SelectSet
  <2> QED BY <1>1, <1>2, <2>1, SameNames DEF MenuInv, BareInv, disk, given
<1>9. Without(Causes)' = FALSE
  BY <1>2 DEF Without, Causes
<1>10. /\ tmpsetting.title \in {NoTitle, page} /\ setting.title \in {NoTitle, page}
  BY <1>1 DEF TitleInv
<1>11. KeptInv =>
        /\ (mode' # "off" /\ chosen' = "no" /\ kept[page] # NoColor) =>
             setting'.color = kept[page]
        /\ mode' = "main" => chosen' # "menu"
  BY <1>2, <1>5 DEF KeptInv
<1> QED BY <1>2, <1>4, <1>5, <1>7, <1>8, <1>9, <1>10, <1>11, QuietStep

LEMMA OpenStep == IInv /\ OpenConfig => IInv'
<1> SUFFICES ASSUME IInv, OpenConfig PROVE IInv'
  OBVIOUS
<1>1. /\ TypeInv /\ MenuInv /\ BareInv /\ TitleInv
      /\ setting \in SettingType /\ setting.misc.slashes = 1 /\ lang \in Languages
  BY DEF IInv, TypeInv
<1>2. PICK s : s = IF Reloads THEN Renamed(setting) ELSE setting
  OBVIOUS
<1>3. /\ mode = "main" /\ mode' = "config" /\ setting' = s /\ tmpsetting' = s
      /\ opened' = setting
      /\ lang' = IF Reloads THEN LanguageOf(setting) ELSE lang
      /\ mishaps' = mishaps \cup (IF Reloads THEN LanguageCause(setting) ELSE {})
      /\ UNCHANGED <<disk, rgb, page, maxCNF, dir, chosen, kept>>
  BY <1>2 DEF OpenConfig, OpensWith
<1>4. /\ s \in SettingType /\ s.misc.slashes = 1 /\ s.color = setting.color
      /\ s.title = setting.title /\ s.path = setting.path
  BY <1>1, <1>2, RenamedIs
<1>5. lang' \in Languages
  BY <1>1, <1>3, LanguageIs
<1>6. Kin(s, setting)
  <2>1. Kin(setting, setting)
    BY <1>1 DEF Kin, SettingType
  <2> QED BY <1>1, <1>2, <2>1, RenamedKin
<1>7. TypeInv'
  BY <1>1, <1>3, <1>4, <1>5 DEF TypeInv, disk, FirstCard, given
<1>8. MenuInv' /\ BareInv' /\ file' = file /\ given' = given
  BY <1>1, <1>3, <1>6, SameNames DEF MenuInv, BareInv, disk, given
<1>9. (NamesClean' /\ Named(setting)) => Named(s)
  BY <1>1, <1>2, <1>3, LanguageIs, RenamedNamed DEF NamesClean, Without
<1>10. s.title \in {NoTitle, page}
  BY <1>1, <1>4 DEF TitleInv
<1>11. WholeInv => setting'.path = Nowhere /\ tmpsetting'.path = Nowhere
  BY <1>3, <1>4 DEF WholeInv
<1>12. KeptInv =>
        /\ (mode' # "off" /\ chosen' = "no" /\ kept[page] # NoColor) =>
             setting'.color = kept[page]
        /\ (mode' \in {"config", "screen"} /\ chosen' # "held" /\ kept[page] # NoColor) =>
             tmpsetting'.color = kept[page]
  BY <1>1, <1>3, <1>4 DEF KeptInv, TypeInv
<1>13. /\ UNCHANGED <<file, given, page, kept, dir, maxCNF>> /\ mishaps \subseteq mishaps'
       /\ mode' # "main"
       /\ setting'.title \in {NoTitle, page} /\ tmpsetting'.title \in {NoTitle, page}
       /\ (NamesClean' /\ Named(setting) /\ Named(tmpsetting)) =>
            Named(setting') /\ Named(tmpsetting')
  BY <1>3, <1>8, <1>9, <1>10
<1> QED BY <1>7, <1>8, <1>11, <1>12, <1>13, QuietStep

\* Entering and leaving the screen menu, a skin saved, the world outside.
LEMMA OutsideStep ==
    ASSUME IInv,
           \/ EnterScreen \/ LeaveScreen \/ SaveSkinBrowser \/ MoveLanguageFile
           \/ \E d \in Dirs : Unplug(d) \/ PlugIn(d)
           \/ UNCHANGED vars
    PROVE  IInv'
<1>1. TypeInv /\ MenuInv /\ BareInv /\ TitleInv
  BY DEF IInv
<1>2. /\ UNCHANGED <<file, given, page, kept, setting, tmpsetting, opened, maxCNF, dir, lang,
                     chosen, mishaps>>
      /\ mode' = mode \/ (mode' \in {"config", "screen"} /\ mode \in {"config", "screen"})
      /\ rgb' \in Colours /\ skinFile' \subseteq [color : Colours, skin : Skins]
      /\ place' \in [Dirs -> Folders] /\ \A d \in Dirs : place'[d] = "bare" => place[d] = "bare"
  <2>1. /\ setting.color \in Colours /\ setting.skin \in Skins /\ rgb \in Colours
        /\ place \in [Dirs -> Folders] /\ skinFile \subseteq [color : Colours, skin : Skins]
    BY <1>1 DEF TypeInv, SettingType, Colours
  <2>2. CASE EnterScreen \/ LeaveScreen
    BY <2>1, <2>2, PagesAre DEF EnterScreen, LeaveScreen, disk
  <2>3. CASE SaveSkinBrowser
    BY <2>1, <2>3 DEF SaveSkinBrowser, SkinOf, ram
  <2>4. CASE MoveLanguageFile
    BY <2>1, <2>4 DEF MoveLanguageFile, ram
  <2>5. CASE \E d \in Dirs : Unplug(d) \/ PlugIn(d)
    BY <2>1, <2>5 DEF Unplug, PlugIn, ram, Folders
  <2>6. CASE UNCHANGED vars
    BY <2>1, <2>6 DEF vars, disk, ram
  <2> QED BY <2>2, <2>3, <2>4, <2>5, <2>6
<1>3. TypeInv'
  BY <1>1, <1>2 DEF TypeInv, FirstCard, given
<1>4. MenuInv' /\ BareInv'
  BY <1>1, <1>2, SameNames DEF MenuInv, BareInv, given
<1>5. setting.title \in {NoTitle, page} /\ tmpsetting.title \in {NoTitle, page}
  BY <1>1 DEF TitleInv
<1>6. WholeInv => setting'.path = Nowhere /\ tmpsetting'.path = Nowhere
  BY <1>2 DEF WholeInv
<1>7. KeptInv =>
        /\ (mode' # "off" /\ chosen' = "no" /\ kept[page] # NoColor) =>
             setting'.color = kept[page]
        /\ (mode' \in {"config", "screen"} /\ chosen' # "held" /\ kept[page] # NoColor) =>
             tmpsetting'.color = kept[page]
        /\ mode' = "main" => chosen' # "menu"
  BY <1>2 DEF KeptInv
<1> QED BY <1>2, <1>3, <1>4, <1>5, <1>6, <1>7, QuietStep

-----------------------------------------------------------------------------
(* The theorems *)

LEMMA InitIInv == Init => IInv
<1> SUFFICES ASSUME Init PROVE IInv
  OBVIOUS
<1>1. PICK setup \in Setups :
        /\ start = setup.start
        /\ place = [d \in Dirs |-> IF d = "boot" THEN "ready" ELSE setup.place[d]]
        /\ file = [d \in Dirs |-> [p \in Pages |->
                  IF d \in setup.first /\ p = 0
                  THEN Written(SetLaunchKeys([Defaults EXCEPT !.pages = PageCount]), Whole)
                  ELSE NoFile]]
  BY DEF Init
<1>2. PICK f : f = Written(SetLaunchKeys([Defaults EXCEPT !.pages = PageCount]), Whole)
  OBVIOUS
<1>3. PICK s : s = [Defaults EXCEPT !.pages = PageCount]
  OBVIOUS
<1>4. /\ s \in SettingType /\ s.keys = Defaults.keys /\ s.misc = Defaults.misc
      /\ s.lang = Defaults.lang /\ s.title = NoTitle /\ s.path = Nowhere
  <2>1. PageCount \in 1 .. PageCount
    BY PagesAre
  <2>2. s \in SettingType /\ s.keys = Defaults.keys /\ s.misc = Defaults.misc
        /\ s.lang = Defaults.lang
    BY <1>3, <2>1, DefaultsAre, SettingIs
  <2> QED BY <1>3, <2>2, DefaultsAre DEF SettingType
<1>5. PICK t : t = SetLaunchKeys(s)
  OBVIOUS
<1>6. /\ t \in SettingType /\ t.title = NoTitle /\ t.path = Nowhere
      /\ t.misc = Defaults.misc /\ t.lang = Defaults.lang
      /\ t.keys["circle"] = Defaults.keys["circle"] /\ SelectSet(t)
      /\ t.defined = s.defined
  BY <1>4, <1>5, SetLaunchKeysIs
<1>7. s.defined = FALSE
  BY <1>3 DEF Defaults
<1>8. Named(t)
  BY <1>6, <1>7, DefaultsAre, KeyIs DEF Named, SelectSet, Keys, Programs
<1>9. f \in FileType /\ f.there /\ f.upto = Whole /\ f.s = t
  BY <1>2, <1>3, <1>5, <1>6 DEF Written, FileType, Whole
<1>10. ~NoFile.there
  BY DEF NoFile
<1>11. \A d \in Dirs, p \in Pages :
         file[d][p] = IF d \in setup.first /\ p = 0 THEN f ELSE NoFile
  BY <1>1, <1>2
<1>12. file \in [Dirs -> [Pages -> FileType \cup {NoFile}]]
  BY <1>1, <1>2, <1>9
<1>13. /\ place \in [Dirs -> Folders]
       /\ \A d \in Dirs : d \in setup.first => place[d] # "bare"
  <2>1. ASSUME NEW d \in Dirs
        PROVE  place[d] \in Folders /\ (d \in setup.first => place[d] # "bare")
    <3>1. CASE d = "boot"
      BY <1>1, <3>1 DEF Folders
    <3>2. CASE d # "boot"
      <4>1. d \in {"path"} \cup Range(CardSlots)
        BY <3>2 DEF Dirs, Cards
      <4> QED BY <1>1, <3>2, <4>1, ConfigAssumption DEF Folders
    <3> QED BY <3>1, <3>2
  <2> QED BY <1>1, <2>1
<1>14. /\ mode = "off" /\ setting = Defaults /\ tmpsetting = Defaults /\ opened = Defaults
       /\ rgb = DefColor /\ page = 0 /\ maxCNF = 1 /\ dir = start /\ lang = "default"
       /\ chosen = "no" /\ skinFile = {} /\ kept = [p \in Pages |-> NoColor]
  BY DEF Init
<1>15. TypeInv
  <2>1. start \in {"boot", FirstCard} \ {Nowhere}
    BY <1>1, ConfigAssumption DEF FirstCard, Nowhere
  <2>2. start \in Dirs
    BY <2>1, CardsAre, FirstCardIs
  <2> QED BY <1>12, <1>13, <1>14, <2>1, <2>2, DefaultsAre, PagesAre DEF TypeInv, Languages
<1>16. NamesInv /\ MenuInv /\ TitleInv /\ BareInv
  BY <1>6, <1>8, <1>9, <1>10, <1>11, <1>13, <1>14, DefaultsAre
     DEF NamesInv, MenuInv, TitleInv, BareInv
<1>17. WholeInv /\ KeptInv
  BY <1>6, <1>9, <1>10, <1>11, <1>14, DefaultsAre DEF WholeInv, KeptInv
<1>18. WhereInv
  <2>1. start \in Homes
    BY <1>15, StartIs
  <2>2. ASSUME NEW p \in Pages, Holds(start, p) PROVE Holds(start, 0)
    BY <1>10, <1>11, <1>15, <2>2, PagesAre, StartIs DEF Holds
  <2> QED BY <1>14, <2>1, <2>2 DEF WhereInv
<1> QED BY <1>15, <1>16, <1>17, <1>18 DEF IInv, ComesBackInv

LEMMA NextIInv == IInv /\ [Next]_vars => IInv'
<1> SUFFICES ASSUME IInv, [Next]_vars PROVE IInv'
  OBVIOUS
<1>1. TypeInv
  BY DEF IInv
<1>2. CASE Boot
  BY <1>2, BootStep
<1>3. CASE MainMenu
  BY <1>3, ReloadsStep, ResetStep, SetPathStep, OpenStep DEF MainMenu
<1>4. CASE Menus
  <2>1. CASE MenuEdit
    BY <1>1, <2>1, MenuEditIs, EditedStep
  <2>2. CASE EnterScreen \/ LeaveScreen \/ SaveSkinBrowser
    BY <2>2, OutsideStep
  <2> QED BY <1>4, <2>1, <2>2 DEF Menus, MenuEdit
<1>5. CASE Leaving
  BY <1>5, OkStep, OkNowhereStep, CutStep, CancelStep DEF Leaving
<1>6. CASE World
  BY <1>6, OffStep, OutsideStep DEF World
<1>7. CASE UNCHANGED vars
  BY <1>7, OutsideStep
<1> QED BY <1>2, <1>3, <1>4, <1>5, <1>6, <1>7 DEF Next

\* The inductive invariant holds.
THEOREM ConfigAlwaysSound == Spec => []IInv
BY InitIInv, NextIInv, PTL DEF Spec

\* Every setting in force, every file and every copy in a menu is of its kind
\* after any steps, however often the power fails in a save.
THEOREM TypeCorrect == Spec => []TypeOK
<1>1. IInv => TypeOK
  <2> SUFFICES ASSUME TypeInv PROVE TypeOK
    BY DEF IInv
  <2>1. ASSUME NEW d \in Dirs, NEW p \in Pages, file[d][p] # NoFile
        PROVE  /\ file[d][p].there /\ file[d][p].upto \in 0 .. Whole
               /\ file[d][p].s \in SettingType
    <3>1. file[d][p] \in FileType
      BY <2>1 DEF TypeInv
    <3> QED BY <3>1 DEF FileType
  <2> QED BY <2>1 DEF TypeInv, TypeOK, Colours
<1> QED BY <1>1, ConfigAlwaysSound, PTL

\* A launch key bound to a built-in program starts it, but for the causes
\* KeysLive names.
THEOREM KeysStayLive == Spec => []KeysLive
<1>1. IInv => KeysLive
  <2> SUFFICES ASSUME IInv, Without({"lang_gone", "cut", "select_passed", "half_spoken"}), NEW k \in Keys
               PROVE  Starts(setting, k) # "nothing"
    BY DEF KeysLive
  <2>1. Named(setting) /\ setting \in SettingType
    BY DEF IInv, NamesInv, TypeInv
  <2>2. setting.keys[k].to # "nothing"
    BY <2>1 DEF SettingType, Programs
  <2> QED BY <2>1, <2>2 DEF Starts, Named
<1> QED BY <1>1, ConfigAlwaysSound, PTL

\* The colour saved is what the next start loads from wherever the pages are
\* searched, but for the causes ChosenComesBack names.
THEOREM SavedComesBack == Spec => []ChosenComesBack
<1>1. IInv => ChosenComesBack
  <2> SUFFICES ASSUME IInv, Without(Causes), \A d \in Dirs : place[d] # "out",
                      NEW p \in Pages, kept[p] # NoColor
               PROVE  AtBoot(p).color = kept[p] /\ AtBoot(p).title \in {NoTitle, p}
    BY DEF ChosenComesBack, Causes
  <2>1. TypeInv /\ TitleInv /\ BareInv /\ WholeInv /\ WhereInv /\ KeptInv
    BY DEF IInv, ComesBackInv
  <2>2. \A d \in Dirs, q \in Pages : Has(d, q) <=> Holds(d, q)
    BY <2>1, CardsAre DEF TypeInv, Folders, BareInv, Has, Holds
  <2>3. Has(FirstCard, p) <=> Holds(FirstCard, p)
    BY <2>2, FirstCardIs, CardsAre DEF Has, Holds
  <2>4. CheckMC = FirstCard
    <3>1. CASE FirstCard = Nowhere
      BY <3>1, CheckMCIs, FirstCardIs
    <3>2. CASE FirstCard # Nowhere
      BY <3>2, CheckMCIs, FirstCardIs, CardsAre
    <3> QED BY <3>1, <3>2
  <2>5. Home(p) # Nowhere /\ file[Home(p)][p].s.color = kept[p]
    BY <2>1 DEF KeptInv
  <2>6. CardOf(start) = FirstCard /\ CardOf(FirstCard) = FirstCard
    BY <2>1, <2>4, StartIs, FirstCardIs, CardsAre DEF CardOf
  <2>7. PICK d0 : d0 = Found(start, 0)
    OBVIOUS
  <2>8. PICK at : at = IF d0 = Nowhere THEN start ELSE d0
    OBVIOUS
  <2>9. PICK d : d = IF p = 0 THEN d0 ELSE Found(at, p)
    OBVIOUS
  <2>10. /\ Holds(start, 0) => d0 = start
         /\ d0 \in {start, FirstCard, Nowhere}
         /\ d0 # Nowhere => Has(d0, 0)
         /\ (d0 = Nowhere) => ~Has(start, 0) /\ ~Has(FirstCard, 0)
         /\ (~Has(start, 0) /\ Has(FirstCard, 0)) => d0 = FirstCard
    BY <2>1, <2>2, <2>6, <2>7, FoundIs, StartIs, PagesAre
  <2>11. at \in {start, FirstCard} /\ at \in Dirs
    BY <2>1, <2>8, <2>10, StartIs, CardsAre, FirstCardIs
  <2>12. ASSUME Holds(start, p) PROVE d = Home(p)
    <3>1. Holds(start, 0) /\ d0 = start /\ at = start
      BY <2>1, <2>8, <2>10, <2>12, CardsAre DEF WhereInv
    <3>2. Found(at, p) = start
      BY <2>1, <2>2, <2>12, <3>1, FoundIs, StartIs
    <3> QED BY <2>9, <2>12, <3>1, <3>2 DEF Home
  <2>13. ASSUME ~Holds(start, p) PROVE d = Home(p)
    <3>1. Holds(FirstCard, p) /\ Home(p) = FirstCard /\ FirstCard # Nowhere
      BY <2>5, <2>13 DEF Home
    <3>2. ~Has(start, p) /\ Has(FirstCard, p)
      BY <2>1, <2>2, <2>3, <2>13, <3>1, StartIs
    <3>3. CASE p = 0
      BY <2>9, <2>10, <3>1, <3>2, <3>3
    <3>4. CASE p # 0
      <4>1. Found(at, p) = FirstCard
        <5>1. CASE at = start
          BY <2>1, <2>6, <2>11, <3>2, <5>1, FoundIs
        <5>2. CASE at = FirstCard
          BY <2>1, <2>11, <3>2, <5>2, FoundIs
        <5> QED BY <2>11, <5>1, <5>2
      <4> QED BY <2>9, <3>1, <3>4, <4>1
    <3> QED BY <3>3, <3>4
  <2>14. d = Home(p) /\ d # Nowhere /\ d \in Dirs
    <3>1. Home(p) \in {start, FirstCard, Nowhere}
      BY DEF Home
    <3> QED BY <2>1, <2>5, <2>12, <2>13, <3>1, StartIs, FirstCardIs, CardsAre
  <2>15. file[d][p].there /\ file[d][p] \in FileType
    <3>1. file[d][p].there
      BY <2>5, <2>14 DEF Home, Holds
    <3> QED BY <2>1, <2>14, <3>1 DEF TypeInv, NoFile
  <2>16. PICK s : s = Scanned(file[d][p])
    OBVIOUS
  <2>17. s.color = kept[p] /\ s.title \in {NoTitle, p}
    BY <2>1, <2>5, <2>14, <2>15, <2>16, ScannedIs DEF WholeInv, TitleInv
  <2>18. AtBoot(p) = s
    BY <2>7, <2>8, <2>9, <2>14, <2>16 DEF AtBoot
  <2> QED BY <2>17, <2>18
<1> QED BY <1>1, ConfigAlwaysSound, PTL

\* Cancel gives back the settings the menu was opened with, and each launch
\* key what it started, in whatever language the names are by then.
THEOREM CancelRestores == Spec => CancelGivesBack
<1> DEFINE Given == Cancel =>
             /\ [setting' EXCEPT !.keys = opened.keys, !.misc = opened.misc] = opened
             /\ \A k \in Keys : \/ Starts(opened, k) = "nothing"
                               \/ Starts(setting', k) = Starts(opened, k)
<1>1. IInv /\ [Next]_vars => [Given]_vars
  <2> SUFFICES ASSUME IInv, Cancel
               PROVE  /\ [setting' EXCEPT !.keys = opened.keys, !.misc = opened.misc] = opened
                      /\ \A k \in Keys : \/ Starts(opened, k) = "nothing"
                                        \/ Starts(setting', k) = Starts(opened, k)
    OBVIOUS
  <2>1. /\ opened \in SettingType /\ tmpsetting \in SettingType
        /\ Kin(tmpsetting, opened) /\ SelectSet(opened) /\ tmpsetting.misc.slashes = 1
    BY DEF IInv, MenuInv, TypeInv, Cancel
  <2>2. PICK r \in SettingType : r = Renamed(tmpsetting)
    BY <2>1, RenamedIs
  <2>3. Kin(r, opened) /\ r.defined = opened.defined
    BY <2>1, <2>2, RenamedKin, KinOfKin
  <2>4. PICK s \in SettingType : s = SetLaunchKeys(r)
    BY <2>2, SetLaunchKeysIs
  <2>5. setting' = s
    BY <2>2, <2>4 DEF Cancel
  <2>6. /\ s.misc = r.misc /\ s.keys["circle"] = r.keys["circle"] /\ SelectSet(s)
        /\ r.defined => s = r
        /\ s.defined = r.defined
    BY <2>2, <2>4, SetLaunchKeysIs
  <2>7. [s EXCEPT !.keys = opened.keys, !.misc = opened.misc] = opened
    <3>1. [r EXCEPT !.keys = opened.keys, !.misc = opened.misc] = opened
      BY <2>3 DEF Kin
    <3>2. s = r \/ \E keys : s = [r EXCEPT !.keys = keys]
      BY <2>4 DEF SetLaunchKeys
    <3> QED BY <2>2, <3>1, <3>2 DEF SettingType
  <2>8. ASSUME NEW k \in Keys, Starts(opened, k) # "nothing"
        PROVE  Starts(s, k) = Starts(opened, k)
    <3>1. CASE k = "select" /\ ~opened.defined
      BY <2>3, <2>1, <2>6, <3>1, SelectStarts
    <3>2. CASE ~(k = "select" /\ ~opened.defined)
      <4>1. s.keys[k] = r.keys[k] /\ s.misc = r.misc
        BY <2>3, <2>6, <3>2 DEF Keys
      <4>2. Starts(r, k) = Starts(opened, k)
        BY <2>3, <2>8, <3>2 DEF Kin
      <4> QED BY <4>1, <4>2 DEF Starts
    <3> QED BY <3>1, <3>2
  <2> QED BY <2>5, <2>7, <2>8
<1> QED BY <1>1, ConfigAlwaysSound, PTL DEF Spec, CancelGivesBack
=============================================================================
