------------------------------- MODULE Config -------------------------------
(***************************************************************************)
(* The settings of the launcher (config.c, and the parts of main.c and     *)
(* lang.c that load, use and rename them): the pages LAUNCHELF.CNF and     *)
(* LAUNCHELF1.CNF, the folders they are searched for and saved in, the     *)
(* configuration menus with their OK and Cancel, the names of the built-in *)
(* programs in the language loaded, and power failures between any two     *)
(* steps and inside a save.                                                *)
(*                                                                         *)
(* A settings record keeps what the properties tell apart: the launch keys *)
(* Circle and SELECT, the name of the MISC folder, a colour, the skin      *)
(* picture, the menu title, the number of pages, CNF_Path and the language *)
(* file.  A file is the record it was written from and how much of it the  *)
(* card holds.  The two languages stand for any two, and a language file   *)
(* translates some of the words; the others stay as they are built in.     *)
(***************************************************************************)
EXTENDS Integers, Sequences, FiniteSets, SequencesExt

CONSTANTS
  CardSlots,   \* the SYS-CONF folders of the memory cards, in CheckMC's order
  PageCount,   \* how many pages the files may hold
  MaxColor,    \* the largest value of a colour (255 in the code)
  Setups       \* what the program is started from, what is plugged in, which
               \* folders hold page 0, and how often each kind of step happens

ASSUME ConfigAssumption ==
  /\ CardSlots \in Seq({"mc0", "mc1"})
  /\ PageCount \in Nat \ {0}
  /\ MaxColor \in Nat \ {0}
  /\ \A setup \in Setups :       \* a card without the folder holds no page
       /\ \A d \in {"path"} \cup Range(CardSlots) : setup.place[d] \in {"out", "bare", "ready"}
       /\ \A d \in setup.first \ {"boot"} : setup.place[d] # "bare"
       /\ \/ setup.start = "boot"
          \/ setup.start = "mc0" /\ CardSlots # <<>> /\ CardSlots[1] = "mc0"

Cards == Range(CardSlots)
Dirs == {"boot", "path"} \cup Cards
Pages == 0 .. PageCount - 1
Languages == {"default", "other"}
Programs == {"browser", "config"}
Words == Programs \cup {"misc", "load_cnf", "set_cnf_path"}
Keys == {"circle", "select"}
Skins == {"plain", "picture"}
Nowhere == "nowhere"
NoTitle == 0 - 1
NoColor == 0 - 1
DefColor == 1                    \* DEF_COLOR1 and the others
Whole == 4                       \* parts of a file written after the version

VARIABLES
  file,      \* file[d][p]: page p in folder d
  skinFile,  \* what the skin file the user saves holds: none or one skin
  place,     \* what the user has plugged in: a folder is out, bare or ready
  start,     \* LaunchElfDir at the start: the folder the program is in, or
             \* SYS-CONF of the first card when that is on a CD
  translated, \* the words that the language file translates
  langFile,  \* whether the language file can be read
  mode,      \* "off", "main", "config" or "screen" (Config_Screen)
  setting,   \* *setting
  tmpsetting, \* what Cancel goes back to
  rgb,       \* Config_Screen's own copy of the colour
  page,      \* numCNF, and the page named in CNF
  maxCNF,
  dir,       \* LaunchElfDir
  lang,      \* the language of Lang_String
  opened,    \* history: the settings when the menu was opened
  chosen,    \* history: whether the user chose the colour in force and did not
             \* save it: "no", in this "menu", or "held" since before it
  kept,      \* history: the colour the user chose and was told is saved
  mishaps,   \* history: causes the properties name
  left       \* bound: how often each kind of step may still happen

given == <<start, translated>>
disk == <<file, skinFile, place, given, langFile>>
ram == <<setting, tmpsetting, rgb, page, maxCNF, dir, lang>>
vars == <<disk, mode, ram, opened, chosen, kept, mishaps, left>>

-----------------------------------------------------------------------------
(* Settings and files *)

\* What the language has for a word: those its file leaves out keep the
\* built-in one.  A path names the MISC folder and a program in it.
Name(word, language) ==
  IF language = "other" /\ word \in translated THEN "other" ELSE "default"
Key(program, language) ==
  [to |-> program, folder |-> Name("misc", language), name |-> Name(program, language)]
Matches(key, language) == key.to \in Programs /\ key = Key(key.to, language)
Elf == Key("elf", "default")
NoKey == Key("none", "default")

\* initConfig: the names are those of the built-in language (LNG_DEF).
Defaults ==
  [keys |-> [k \in Keys |-> IF k = "circle" THEN Key("browser", "default")
                                            ELSE NoKey],
   defined |-> FALSE,            \* LK_Flag of SELECT
   misc |-> [in |-> "default", slashes |-> 1],
   color |-> DefColor, skin |-> "plain", title |-> NoTitle,
   pages |-> 1, path |-> Nowhere, lang |-> "default"]

NoFile == [there |-> FALSE]
Written(s, upto) == [there |-> TRUE, upto |-> upto, s |-> s]

\* storeSkinCNF and scanSkinCNF: what a skin file and a page share.
SkinOf(s) == [color |-> s.color, skin |-> s.skin]
SkinScanned(s, look) == [s EXCEPT !.color = look.color, !.skin = look.skin]

\* get_CNF_string finds the variables up to the end of the file, one part of
\* them after another: launch keys, MISC names, the skin, and the rest.
Reaches(f, part) == f.upto >= part

\* loadConfig's loop over the variables: what the file lacks keeps its
\* default, a launch key in the file counts as defined, and the MISC name,
\* which is saved with its slash, is given another one.
Scanned(f) ==
  LET rest == IF Reaches(f, Whole) THEN f.s ELSE Defaults
      look == SkinOf(IF Reaches(f, 3) THEN f.s ELSE Defaults)
  IN SkinScanned(
       [rest EXCEPT
          !.keys    = IF Reaches(f, 1) THEN f.s.keys ELSE Defaults.keys,
          !.defined = Reaches(f, 1),
          !.misc    = IF Reaches(f, 2) THEN [in |-> f.s.misc.in, slashes |-> 2]
                                       ELSE Defaults.misc],
       look)

-----------------------------------------------------------------------------
(* Where a page is looked for and saved *)

\* The memory card CheckMC answers with: the first one plugged in.
CheckMC ==
  LET slot == SelectInSeq(CardSlots, LAMBDA d : place[d] # "out")
  IN IF slot = 0 THEN Nowhere ELSE CardSlots[slot]

\* "mcN" of a LaunchElfDir on a card, else the card that is there.
CardOf(d) == IF d \in Cards THEN d ELSE CheckMC

Has(d, p) == d # Nowhere /\ place[d] = "ready" /\ file[d][p].there

\* loadConfig: LaunchElfDir, also by the page's short name, then SYS-CONF.
Found(d, p) ==
  CASE Has(d, p)                       -> d
    [] ~Has(d, p) /\ Has(CardOf(d), p) -> CardOf(d)
    [] OTHER                           -> Nowhere

Writable(d) == place[d] = "ready"

SysConfOr(card, d) ==
  IF card # Nowhere /\ place[card] = "ready" THEN card ELSE d

\* saveConfig's choice of folder, and the second one when the first fails.
\* A slip: SYS-CONF is preferred to the folder the page was found in.
FirstChoiceCard ==
  IF setting.path # Nowhere THEN dir ELSE SysConfOr(CardOf(dir), dir)
FirstChoice ==
  IF Has(dir, page) \/ setting.path # Nowhere
  THEN dir ELSE SysConfOr(CardOf(dir), dir)
Target ==
  LET second == SysConfOr(CheckMC, dir)
  IN CASE Writable(FirstChoice)                       -> FirstChoice
       [] ~Writable(FirstChoice) /\ Writable(second) -> second
       [] OTHER                                       -> Nowhere

\* Validate_CNF_Path
Validated(s, d) == IF s.path # Nowhere /\ place[s.path] # "out" THEN s.path ELSE d

-----------------------------------------------------------------------------
(* The built-in programs and their names *)

\* Load_External_Language: the language in force afterwards, and the launch
\* keys renamed with it.  SELECT is passed over while it is not defined.
LanguageOf(s) == IF s.lang = "other" /\ langFile THEN "other" ELSE "default"

\* A slip: the names are looked up, and the keys keep the old ones.
RenamedNot(s) == [s EXCEPT !.misc = [in |-> LanguageOf(s), slashes |-> 1]]

\* A slip: the MISC name is renamed only with the keys that match it.
RenamedLate(s) ==
  IF \E k \in Keys : Matches(s.keys[k], s.misc.in) /\ s.misc.slashes = 1
  THEN RenamedNot(s) ELSE s

Renamed(s) ==
  LET Hit(k) == /\ Matches(s.keys[k], s.misc.in)
                /\ s.misc.slashes = 1
                /\ k = "select" => s.defined
  IN [s EXCEPT !.keys = [k \in Keys |-> IF Hit(k)
                           THEN Key(s.keys[k].to, LanguageOf(s)) ELSE s.keys[k]],
               !.misc = [in |-> LanguageOf(s), slashes |-> 1]]

\* setLaunchKeys, which every drawing of the main menu calls first.
SetLaunchKeys(s) ==
  IF s.defined THEN s
  ELSE [s EXCEPT !.keys["select"] = Key("config", s.misc.in)]

\* What Execute starts: the path has to match a name of a program exactly.
Starts(s, k) ==
  IF s.keys[k].to \in Programs /\ ~Matches(s.keys[k], s.misc.in)
  THEN "nothing" ELSE s.keys[k].to

\* The browser shows the programs in the language loaded, while its MISC
\* folder is that of the settings; one is started if the names agree as well.
MiscShown == Name("misc", lang) = Name("misc", setting.misc.in)
Shown(word) == MiscShown /\ Name(word, lang) = Name(word, setting.misc.in)

-----------------------------------------------------------------------------
\* A colour is the user's choice once set in a menu, or by a reset, and stays
\* that while it is in force and not saved.
Choosing == IF chosen = "held" THEN "held" ELSE "menu"

\* The causes the properties below name.
LanguageCause(s) == IF s.lang = "other" /\ ~langFile THEN {"lang_gone"} ELSE {}
AwayCause(p) ==
  IF \E d \in Dirs : file[d][p].there /\ place[d] # "ready" THEN {"away"} ELSE {}
MovedCause(from, to) ==
  IF to # from /\ \E p \in Pages : file[from][p].there THEN {"moved"} ELSE {}

\* Only a card in the first slot is found whatever else is plugged in.
SecondCause(d) ==
  IF d \in Cards /\ d # CardSlots[1] THEN {"second_card"} ELSE {}

\* Bounded are changes in the menus, saves and what the world does; loading,
\* opening and leaving menus and switching off are free.
Kinds == {"bind", "color", "skin", "title", "pages", "path", "language",
          "reset", "save", "cut", "plug", "langfile"}
Spends(kind) == left[kind] > 0 /\ left' = [left EXCEPT ![kind] = @ - 1]
Free == UNCHANGED left

Off ==
  /\ mode' = "off" /\ setting' = Defaults /\ tmpsetting' = Defaults /\ opened' = Defaults
  /\ rgb' = DefColor /\ page' = 0 /\ maxCNF' = 1 /\ dir' = start
  /\ lang' = "default" /\ chosen' = "no"

Init ==
  /\ langFile = TRUE
  /\ \E setup \in Setups :
       /\ left = [k \in Kinds |-> IF k \in DOMAIN setup.left
                                  THEN setup.left[k] ELSE 0]
       /\ start = setup.start /\ translated = setup.translated
       /\ place = [d \in Dirs |-> IF d = "boot" THEN "ready" ELSE setup.place[d]]
       /\ file = [d \in Dirs |-> [p \in Pages |->
                 IF d \in setup.first /\ p = 0
                 THEN Written(SetLaunchKeys([Defaults EXCEPT !.pages = PageCount]), Whole)
                 ELSE NoFile]]
  /\ skinFile = {}
  /\ mode = "off" /\ setting = Defaults /\ tmpsetting = Defaults /\ opened = Defaults
  /\ rgb = DefColor /\ page = 0 /\ maxCNF = 1 /\ dir = start
  /\ lang = "default" /\ chosen = "no"
  /\ kept = [p \in Pages |-> NoColor] /\ mishaps = {}

-----------------------------------------------------------------------------
(* Loading *)

Load(p, from) ==
  LET d == Found(from, p)
      s == IF d = Nowhere THEN Defaults ELSE Scanned(file[d][p])
      at == IF d = Nowhere THEN from ELSE d
  IN /\ setting' = SetLaunchKeys(Renamed(s))
     /\ lang' = LanguageOf(s)
     /\ dir' = Validated(s, at)
     /\ chosen' = "no"
     /\ mishaps' = mishaps \cup LanguageCause(s) \cup AwayCause(p)
                           \cup MovedCause(from, at) \cup SecondCause(at)
                           \cup (IF s.path # Nowhere THEN {"path"} ELSE {})

Boot ==
  /\ mode = "off" /\ Free
  /\ Load(0, start)
  /\ maxCNF' = setting'.pages
  /\ mode' = "main"
  /\ UNCHANGED <<disk, tmpsetting, opened, rgb, page, kept>>

\* reloadConfig with the page decConfig, incConfig or Load CNF asks for.
Reload(p) ==
  /\ mode = "main" /\ Free
  /\ page' = p
  /\ Load(p, dir)
  /\ UNCHANGED <<disk, mode, tmpsetting, opened, rgb, maxCNF, kept>>

DecConfig == maxCNF > 1 /\ Reload(IF page > 0 THEN page - 1 ELSE maxCNF - 1)
IncConfig == maxCNF > 1 /\ Reload(IF page < maxCNF - 1 THEN page + 1 ELSE 0)
LoadCNF == Shown("load_cnf") /\ Reload(page)

\* SELECT and START in the main menu: initConfig alone, the language stays.
ResetConfig ==
  /\ mode = "main" /\ Spends("reset")
  /\ setting' = SetLaunchKeys(Defaults)
  /\ chosen' = "held"
  /\ UNCHANGED <<disk, mode, tmpsetting, opened, rgb, page, maxCNF, dir, lang, kept,
                 mishaps>>

SetCNFPath ==
  /\ mode = "main" /\ Shown("set_cnf_path") /\ Spends("path")
  /\ setting' = [setting EXCEPT !.path = "path"]
  /\ dir' = Validated(setting', dir)
  /\ mishaps' = mishaps \cup {"path"}
  /\ UNCHANGED <<disk, mode, tmpsetting, opened, rgb, page, maxCNF, lang, chosen, kept>>

-----------------------------------------------------------------------------
(* The configuration menus *)

\* While a GUI skin is in use the language is loaded once more (main.c:2079).
Reloads == setting.skin = "picture"
OpensWith(s) ==
  /\ mode = "main" /\ Free
  /\ \E k \in Keys : Starts(setting, k) = "config"
  /\ mode' = "config"
  /\ setting' = IF Reloads THEN Renamed(setting) ELSE setting
  /\ lang' = IF Reloads THEN LanguageOf(setting) ELSE lang
  /\ mishaps' = mishaps \cup (IF Reloads THEN LanguageCause(setting) ELSE {})
  /\ tmpsetting' = s /\ opened' = setting
  /\ UNCHANGED <<disk, rgb, page, maxCNF, dir, chosen, kept>>

\* A slip: what Cancel goes back to is the page as it is without a file.
OpenConfigBare == OpensWith(Defaults)

\* config() works on a copy.
OpenConfig == OpensWith(IF Reloads THEN Renamed(setting) ELSE setting)

Edits(in, kind, s) ==
  /\ mode = in /\ Spends(kind)
  /\ setting' = s
  /\ UNCHANGED <<disk, mode, tmpsetting, opened, page, maxCNF, dir, kept>>

\* A program is bound by the name the browser shows in MISC, which after a
\* reset may be another language's than that of the settings.
Bind ==
  /\ \E key \in {NoKey, Elf} \cup
        (IF MiscShown THEN {Key(program, lang) : program \in Programs} ELSE {}) :
       /\ Edits("config", "bind", [setting EXCEPT !.keys["circle"] = key])
       /\ mishaps' = mishaps \cup
            (IF key.to \in Programs /\ ~Matches(key, setting.misc.in)
             THEN {"half_spoken"} ELSE {})
  /\ UNCHANGED <<rgb, lang, chosen>>

EnterScreen ==
  /\ mode = "config" /\ Free
  /\ mode' = "screen" /\ rgb' = setting.color
  /\ UNCHANGED <<disk, setting, tmpsetting, opened, page, maxCNF, dir, lang, chosen,
                 kept, mishaps>>
LeaveScreen ==
  /\ mode = "screen" /\ Free
  /\ mode' = "config" /\ rgb' = DefColor
  /\ UNCHANGED <<disk, setting, tmpsetting, opened, page, maxCNF, dir, lang, chosen,
                 kept, mishaps>>

\* A colour is stepped in the menu's copy, which a skin loaded in between
\* does not change.
ColorStep(from, step) == from + step
StepColor(step) ==
  /\ ColorStep(rgb, step) \in 0 .. MaxColor
  /\ rgb' = ColorStep(rgb, step)
  /\ Edits("screen", "color", [setting EXCEPT !.color = ColorStep(rgb, step)])
  /\ chosen' = Choosing
  /\ UNCHANGED <<lang, mishaps>>

LoadSkinBrowser ==
  /\ \E look \in skinFile :
       Edits("screen", "skin", SkinScanned(setting, look))
  /\ chosen' = Choosing
  /\ UNCHANGED <<rgb, lang, mishaps>>

SaveSkinBrowser ==
  /\ mode = "screen" /\ Spends("skin")
  /\ skinFile' = {SkinOf(setting)}
  /\ UNCHANGED <<file, place, given, langFile, mode, ram, opened,
                 chosen, kept, mishaps>>

DefaultScreen ==
  /\ rgb' = DefColor
  /\ Edits("screen", "color", [setting EXCEPT !.color = DefColor, !.skin = "plain"])
  /\ chosen' = Choosing
  /\ UNCHANGED <<lang, mishaps>>

\* The user names a page by its number, so that titles tell pages apart.
MenuTitle ==
  /\ Edits("screen", "title", [setting EXCEPT !.title = page])
  /\ UNCHANGED <<rgb, lang, chosen, mishaps>>

\* Config_Skin: a picture that was chosen and not applied is taken back.
ConfigSkin ==
  /\ \E picture \in Skins, applied \in BOOLEAN :
       Edits("screen", "skin", [setting EXCEPT !.skin = IF applied THEN picture ELSE @])
  /\ UNCHANGED <<rgb, lang, chosen, mishaps>>

\* Config_Startup
PagesMore ==
  /\ setting.pages < PageCount
  /\ Edits("config", "pages", [setting EXCEPT !.pages = @ + 1])
  /\ UNCHANGED <<rgb, lang, chosen, mishaps>>
PagesLess ==
  /\ setting.pages > 1
  /\ Edits("config", "pages", [setting EXCEPT !.pages = @ - 1])
  /\ UNCHANGED <<rgb, lang, chosen, mishaps>>
EditPath ==
  /\ \E d \in {"path", Nowhere} : Edits("config", "path", [setting EXCEPT !.path = d])
  /\ mishaps' = mishaps \cup {"path"}
  /\ UNCHANGED <<rgb, lang, chosen>>
ChooseLanguage ==
  \E l \in Languages :
    LET s == [setting EXCEPT !.lang = l]
    IN /\ Edits("config", "language", Renamed(s))
       /\ lang' = LanguageOf(s)
       /\ mishaps' = mishaps \cup LanguageCause(s)
            \cup (IF ~s.defined THEN {"select_passed"} ELSE {})
       /\ UNCHANGED <<rgb, chosen>>

-----------------------------------------------------------------------------
(* OK and Cancel *)

KeptNow ==
  IF chosen = "no" THEN kept ELSE [kept EXCEPT ![page] = setting.color]

SaveCause ==
  AwayCause(page)
  \cup SecondCause(Target)

\* saveConfig opens with O_TRUNC, writes and closes.
Save(upto) ==
  /\ Target # Nowhere
  /\ file' = [file EXCEPT ![Target][page] = Written(setting, upto)]
  /\ UNCHANGED <<skinFile, place, given, langFile>>

BackToMain ==
  /\ mode' = "main"
  /\ setting' = SetLaunchKeys(setting) /\ tmpsetting' = Defaults /\ opened' = Defaults
  /\ UNCHANGED <<rgb, page, maxCNF, dir, lang>>

Ok ==
  /\ mode = "config" /\ Spends("save")
  /\ Save(Whole) /\ BackToMain /\ chosen' = "no"
  /\ kept' = KeptNow
  /\ mishaps' = mishaps \cup SaveCause

\* Neither folder can be written: a message, and the settings stay in force.
OkNowhere ==
  /\ mode = "config" /\ Free
  /\ Target = Nowhere /\ BackToMain
  /\ chosen' = IF chosen = "menu" THEN "held" ELSE chosen
  /\ UNCHANGED <<disk, kept, mishaps>>

\* The card is full: genWrite writes less, which is reported.
OkShort ==
  /\ mode = "config" /\ Spends("cut")
  /\ \E upto \in 0 .. Whole - 1 : Save(upto)
  /\ BackToMain /\ chosen' = "no"
  /\ mishaps' = mishaps \cup {"cut"}
  /\ UNCHANGED kept

PowerFailsInSave ==
  /\ mode = "config" /\ Spends("cut")
  /\ \E upto \in 0 .. Whole - 1 : Save(upto)
  /\ Off
  /\ mishaps' = mishaps \cup {"cut"}
  /\ UNCHANGED kept

Cancel ==
  /\ mode = "config" /\ Free
  /\ mode' = "main"
  /\ setting' = SetLaunchKeys(Renamed(tmpsetting))
  /\ lang' = LanguageOf(tmpsetting)
  /\ tmpsetting' = Defaults /\ opened' = Defaults
  /\ chosen' = IF chosen = "menu" THEN "no" ELSE chosen
  /\ mishaps' = mishaps \cup LanguageCause(tmpsetting)
  /\ UNCHANGED <<disk, rgb, page, maxCNF, dir, kept>>

-----------------------------------------------------------------------------
(* The user and the power *)

PowerOff ==
  /\ mode # "off" /\ Free /\ Off
  /\ UNCHANGED <<disk, kept, mishaps>>

Unplug(d) ==
  /\ place[d] = "ready" /\ Spends("plug")
  /\ place' = [place EXCEPT ![d] = "out"]
  /\ UNCHANGED <<file, skinFile, given, langFile, mode, ram, opened,
                 chosen, kept, mishaps>>
PlugIn(d) ==
  /\ place[d] = "out" /\ Spends("plug")
  /\ place' = [place EXCEPT ![d] = "ready"]
  /\ UNCHANGED <<file, skinFile, given, langFile, mode, ram, opened,
                 chosen, kept, mishaps>>
MoveLanguageFile ==
  /\ Spends("langfile")
  /\ langFile' = ~langFile
  /\ UNCHANGED <<file, skinFile, place, given, mode, ram, opened,
                 chosen, kept, mishaps>>

MainMenu == DecConfig \/ IncConfig \/ LoadCNF \/ ResetConfig \/ SetCNFPath \/ OpenConfig
Menus ==
  \/ Bind \/ EnterScreen \/ LeaveScreen \/ StepColor(1) \/ StepColor(0 - 1)
  \/ LoadSkinBrowser \/ SaveSkinBrowser \/ DefaultScreen \/ MenuTitle \/ ConfigSkin
  \/ PagesMore \/ PagesLess \/ EditPath \/ ChooseLanguage
Leaving == Ok \/ OkNowhere \/ OkShort \/ PowerFailsInSave \/ Cancel
World == PowerOff \/ MoveLanguageFile \/ (\E d \in Dirs : Unplug(d) \/ PlugIn(d))

Next == Boot \/ MainMenu \/ Menus \/ Leaving \/ World

Spec == Init /\ [][Next]_vars

-----------------------------------------------------------------------------
(* Properties *)

Without(causes) == mishaps \cap causes = {}

SettingType ==
  [keys : [Keys -> [to : Programs \cup {"elf", "none"},
                    folder : Languages, name : Languages]],
   defined : BOOLEAN, misc : [in : Languages, slashes : 1 .. 2],
   color : 0 .. MaxColor, skin : Skins, title : Pages \cup {NoTitle},
   pages : 1 .. PageCount, path : {"path", Nowhere}, lang : Languages]

\* Every variable has a value of its kind; in a menu the MISC name has one
\* slash, since every load ends with Load_External_Language (main.c:1640).
TypeOK ==
  /\ \A d \in Dirs, p \in Pages : \/ file[d][p] = NoFile
                                  \/ /\ file[d][p].there
                                     /\ file[d][p].upto \in 0 .. Whole
                                     /\ file[d][p].s \in SettingType
  /\ skinFile \subseteq [color : 0 .. MaxColor, skin : Skins]
  /\ setting \in SettingType /\ tmpsetting \in SettingType
  /\ setting.misc.slashes = 1
  /\ rgb \in 0 .. MaxColor /\ page \in Pages /\ maxCNF \in 1 .. PageCount
  /\ dir \in Dirs /\ lang \in Languages
  /\ mode \in {"off", "main", "config", "screen"}

\* A launch key bound to a built-in program starts it, through every change
\* of language, load, save, Cancel and reset, unless the language file was
\* gone when it was loaded, a file was cut, the language was changed while
\* SELECT was not defined (lang.c:301, config.c:416), or it was bound after a
\* reset, by its name in a language that leaves the MISC folder's name as it
\* is built in and translates the program's (lang.c:238, main.c:2535,
\* filer.c:3453).
KeysLive ==
  (mode = "main" /\ Without({"lang_gone", "cut", "select_passed", "half_spoken"})) =>
    \A k \in Keys : Starts(setting, k) # "nothing"

\* What a start of the program loads: page 0, and the others from where
\* that leaves LaunchElfDir.
AtBoot(p) ==
  LET d0 == Found(start, 0)
      at == IF d0 = Nowhere THEN start ELSE d0
      d == IF p = 0 THEN d0 ELSE Found(at, p)
  IN IF d = Nowhere THEN Defaults ELSE Scanned(file[d][p])

\* The colour the user chose and was told is saved is what the next start
\* loads, and the page holds no other page's settings, once every folder is
\* plugged in again: unless the file was cut, a folder holding the page was
\* out at a load or a save, CNF_Path was used, a page was loaded from or saved
\* in a second card, or a page found in SYS-CONF moved LaunchElfDir away from
\* a folder that holds pages (config.c:747, 573).
ChosenComesBack ==
  (/\ Without({"cut", "away", "path", "moved", "second_card"})
   /\ \A d \in Dirs : place[d] # "out") =>
  \A p \in Pages : kept[p] # NoColor =>
    AtBoot(p).color = kept[p] /\ AtBoot(p).title \in {NoTitle, p}

\* After Cancel each launch key starts what it started when the menu was
\* opened, whatever languages were tried in between and whether or not the
\* language file is still there, and everything else is as it was
\* (config.c:2372).
CancelGivesBack ==
  [][Cancel =>
       /\ [setting' EXCEPT !.keys = opened.keys, !.misc = opened.misc] = opened
       /\ \A k \in Keys : \/ Starts(opened, k) = "nothing"
                         \/ Starts(setting', k) = Starts(opened, k)]_vars
=============================================================================
