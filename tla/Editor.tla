------------------------------- MODULE Editor -------------------------------
(***************************************************************************)
(* The text editor (editor.c): windows that each hold a text, one of them  *)
(* active, edited with the virtual or a USB keyboard, with a mark and a    *)
(* copy buffer common to all of them.                                      *)
(*                                                                         *)
(* A text is a C string, and its size is counted apart from it; a key      *)
(* changes the string through offsets from the cursor (del1..del4,         *)
(* ins1..ins5), several of them chosen so that the CR and the LF of a line *)
(* end stay together in a text of mode "other".  Every action ends with    *)
(* the refresh of the screen, whose Editor_Rules bring the cursor back     *)
(* into the text.                                                          *)
(*                                                                         *)
(* Characters are "cr", "lf" and "a" for any other; "nul" occurs in files. *)
(***************************************************************************)
EXTENDS Integers, Sequences

CONSTANTS
    MaxWindows,    \* windows (10 in the code)
    Names,         \* names of files
    FirstFiles,    \* what a file may hold at first
    MaxLen,        \* bound: length of a text while it is edited
    MaxEvents      \* bound: keys and menu choices

Chars == {"a", "cr", "lf"}

ASSUME EditorAssumption ==
    /\ MaxWindows \in Nat \ {0}
    /\ MaxLen \in Nat
    /\ FirstFiles \subseteq {file \in Seq(Chars) : Len(file) <= MaxLen}
    /\ MaxEvents \in Nat

VARIABLES
    running,       \* TextEditor has been called and has not returned
    usbkbd_used,   \* the setting: there is a USB keyboard
    window,        \* Window, TextMode, TextSize, TextBuffer and Path of each
    active,        \* Active_Window
    ed,            \* Editor_Cur, _nChar, _Insert, _RetMode and KeyBoard_Active
    mark,          \* MARK_ON and MARK_IN
    clip,          \* TextBuffer[EDIT] while MARK_COPY or MARK_CUT, and the
                   \* mode of the text it was taken from
    disk,          \* external: the files
    dropped,       \* history: a text that its file does not hold was given up
                   \* without a question
    mishaps,       \* history: see Mishaps
    events         \* history: events so far, see MaxEvents

vars == <<running, usbkbd_used, window, active, ed, mark, clip, disk,
          dropped, mishaps, events>>

\* What the code does not provide for.  After the first eight the offsets are
\* wrong and the run ends:
\*   no_window   a key changes the text of a window that is not open
\*   past_end    Delete at the end of the text, or the cursor beyond it, or
\*               a copy from it to a mark beyond it
\*   backwards   a mark is deleted with the cursor before its start
\*   half_crlf   a CR LF is overwritten by one character
\*   no_mode     Return while Editor_RetMode stands for no line end
\*   at_lf       Paste at an LF in mode other
\*   lone_lf     Delete at an LF in mode other that no CR precedes
\*   unruled     after a failed Open, a key that was waiting meets the cursor of
\*               the window left before the refresh, beyond the text
\* and the others spoil one thing:
\*   carried     the mark comes into a window where it was not set
\*   shifted     text before the start of the mark grows
\*   mixed       a text of mode other gets another line end than CR LF
\*   resaved     a text is changed that has been saved
\*   short       the write of a save fails
\*   overwritten a save replaces the file of another window, whose text is
\*               another one and has been saved
Ending == {"no_window", "past_end", "backwards", "half_crlf", "no_mode",
           "at_lf", "lone_lf", "unruled"}
Mishaps == Ending \cup {"carried", "shifted", "mixed", "resaved", "short",
                       "overwritten"}

Windows == 0 .. MaxWindows - 1
Modes == {"none", "other", "unix", "mac"}
RetModes == <<"other", "unix", "mac", "none">>
NoClip == [text |-> <<>>, mode |-> "nothing"]
NoPath == "none"

Free == [created |-> FALSE, opened |-> FALSE, saved |-> TRUE, text |-> <<>>,
         size |-> 0, mode |-> "none", path |-> NoPath, extra |-> 0]

Over == mishaps \cap Ending # {}

WindowType ==
    [created : BOOLEAN, opened : BOOLEAN, saved : BOOLEAN,
     text : {text \in Seq(Chars) : Len(text) <= MaxLen},
     size : -1 .. MaxLen + 1, mode : Modes, path : Names \cup {NoPath}, extra : 0 .. 1]

TypeOK ==
    /\ running \in BOOLEAN
    /\ usbkbd_used \in BOOLEAN
    /\ window \in [Windows -> WindowType]
    /\ \A w \in Windows : ~window[w].opened => window[w].saved /\ window[w].size = 0
    /\ active \in Windows
    /\ ed \in [cur : 0 .. MaxLen + 1, nChar : 0 .. MaxLen + 2,
               insert : BOOLEAN, ret : Modes, kbd : BOOLEAN]
    /\ mark \in [on : BOOLEAN, in : 0 .. MaxLen + 1]
    /\ clip \in [text : Seq(Chars), mode : Modes \cup {"nothing"}]
    /\ disk \in [Names -> {file \in Seq(Chars \cup {"nul"}) : Len(file) <= MaxLen + 1}]
    /\ dropped \in BOOLEAN
    /\ mishaps \subseteq Mishaps
    /\ events \in 0 .. MaxEvents

\* Init() of the code, for a text of the given mode.
Fresh(mode) == [cur |-> 0, nChar |-> 0, insert |-> TRUE, ret |-> mode, kbd |-> FALSE]
NoMark == [on |-> FALSE, in |-> 0]

Init ==
    /\ running = FALSE
    /\ usbkbd_used \in BOOLEAN
    /\ window = [w \in Windows |-> Free]
    /\ active = 0
    /\ ed = Fresh("none")
    /\ mark = NoMark
    /\ clip = NoClip
    /\ disk \in [Names -> FirstFiles]
    /\ dropped = FALSE
    /\ mishaps = {}
    /\ events = 0

----------------------------------------------------------------------------
(* The text and the cursor.                                                *)

W == window[active]
Text == W.text
Cur == ed.cur

\* The character at offset i of a string, "end" for its terminator.
CharAt(s, i) == IF i \in 0 .. Len(s) - 1 THEN s[i + 1] ELSE "end"
IsCrLf(s, i) == CharAt(s, i) = "cr" /\ CharAt(s, i + 1) = "lf"

\* Mode other: the cursor is between the two halves of a line end.
AtLf == W.mode = "other" /\ IsCrLf(Text, Cur - 1)

\* The string with new in the place of n characters at offset i.
Spliced(s, i, n, new) == SubSeq(s, 1, i) \o new \o SubSeq(s, i + n + 1, Len(s))

\* Editor_Rules, which are not reached while there is nothing to show: the
\* cursor is brought to where a character or the end of the text is counted.
Ruled(win, a, e) ==
    IF win[a].size = 0 THEN e
    ELSE LET n == win[a].size + 1 IN
         [e EXCEPT !.nChar = n,
                   !.cur = IF e.cur >= n THEN (IF n = 0 THEN 0 ELSE n - 1) ELSE e.cur]

Happens(what) == mishaps' = mishaps \cup what

\* The active window gets the text s of the size counted, and the cursor cur.
Edits(s, size, cur, what) ==
    LET win == [window EXCEPT ![active].text = s, ![active].size = size] IN
    /\ window' = win
    /\ ed' = Ruled(win, active, [ed EXCEPT !.cur = cur])
    /\ Happens(what \cup (IF W.saved THEN {"resaved"} ELSE {}))
    /\ UNCHANGED <<running, usbkbd_used, active, disk, dropped>>

\* The cursor goes to cur, if nothing else of the text changes.
Goes(cur) ==
    /\ ed' = Ruled(window, active, [ed EXCEPT !.cur = cur])
    /\ UNCHANGED <<running, usbkbd_used, window, active, disk, dropped>>

\* Text keys come from the USB keyboard or the virtual one.
Key == running /\ W.opened /\ (usbkbd_used \/ ed.kbd)

----------------------------------------------------------------------------
(* Moving the cursor.                                                      *)

\* Right and left, with any of the pad and the keyboards.
MoveRight ==
    /\ running /\ W.opened
    /\ Cur < ed.nChar /\ CharAt(Text, Cur) # "end"
    /\ Goes(Cur + 1)
    /\ UNCHANGED <<mark, clip, mishaps>>

MoveLeft ==
    /\ running /\ W.opened
    /\ Cur > 0
    /\ Goes(Cur - 1)
    /\ UNCHANGED <<mark, clip, mishaps>>

\* Home, End, and lines or pages up and down.  The widths of rows that the
\* text no longer has are not reset, and take the cursor anywhere the rules
\* leave it.
MoveRows ==
    /\ running /\ W.opened
    /\ \E cur \in 0 .. W.size :
          /\ Goes(cur)
          /\ Happens(IF cur > Len(Text) THEN {"past_end"} ELSE {})
    /\ UNCHANGED <<mark, clip>>

----------------------------------------------------------------------------
(* Adding.                                                                 *)

\* The entry of a key at the LF of a line end is made at its CR.
\* Mutation: it is made at the LF
EntryPointAtLf == Cur
EntryPoint == IF AtLf THEN Cur - 1 ELSE Cur

\* Characters an entry at i overwrites (ins4).
Overwritten(i) ==
    IF ed.insert \/ CharAt(Text, i) = "end" THEN 0
    ELSE IF W.mode = "other" /\ IsCrLf(Text, i) THEN 2 ELSE 1

\* Mutation: a character overwritten is counted as one more
GrowsAlways(n, over) == n

\* What is counted for an entry of n characters (ins1).
Grows(n, over) == IF over = 2 THEN 0 ELSE n - over

\* The entry of the string new, for which n characters are counted.
Enters(new, n, what) ==
    LET i == EntryPoint
        over == Overwritten(i)
    IN  /\ Len(Text) + n <= MaxLen
        /\ Edits(Spliced(Text, i, over, new), W.size + Grows(n, over), i + n,
                 what
                 \cup (IF over = 2 /\ n = 1 THEN {"half_crlf"} ELSE {})
                 \cup (IF mark.on /\ i < mark.in THEN {"shifted"} ELSE {}))
        /\ UNCHANGED <<mark, clip>>

\* Any character, blank or tabulation.
TypeChar == Key /\ Enters(<<"a">>, 1, {})

\* A mode that stands for no line end leaves the character there is.
TypeReturn ==
    /\ Key
    /\ LET single == IF W.mode = "other" THEN {"mixed"} ELSE {}
           here == CharAt(Text, EntryPoint)
       IN  \/ ed.ret = "other" /\ Enters(<<"cr", "lf">>, 2, {})
           \/ ed.ret = "unix" /\ Enters(<<"cr">>, 1, single)
           \/ ed.ret = "mac" /\ Enters(<<"lf">>, 1, single)
           \/ /\ ed.ret = "none"
              /\ Enters(IF here = "end" THEN <<>> ELSE <<here>>, 1, {"no_mode"})

Paired(s) ==
    \A i \in 1 .. Len(s) :
        /\ s[i] = "cr" => IsCrLf(s, i - 1)
        /\ s[i] = "lf" => i > 1 /\ s[i - 1] = "cr"

\* At an LF, one character less of the copy buffer is used from here on.
Paste ==
    /\ Key
    /\ clip # NoClip
    /\ Len(Text) + Len(clip.text) <= MaxLen
    /\ IF W.mode = "other" /\ CharAt(Text, Cur) = "lf"
       THEN /\ Happens({"at_lf"})
            /\ UNCHANGED <<running, usbkbd_used, window, active, ed, clip, disk,
                           dropped>>
       ELSE /\ Edits(Spliced(Text, Cur, 0, clip.text), W.size + Len(clip.text),
                     Cur + Len(clip.text),
                     (IF W.mode = "other" /\ clip.mode # "other" /\ ~Paired(clip.text)
                      THEN {"mixed"} ELSE {})
                     \cup (IF mark.on /\ Cur < mark.in THEN {"shifted"} ELSE {}))
            /\ UNCHANGED clip
    /\ UNCHANGED mark

\* A USB key while the active window is not open: its buffer is freed, or
\* there has never been one.
KeyWithoutWindow ==
    /\ running /\ ~W.opened /\ usbkbd_used
    /\ Happens({"no_window"})
    /\ UNCHANGED <<running, usbkbd_used, window, active, ed, mark, clip, disk,
                   dropped>>

----------------------------------------------------------------------------
(* Removing.                                                               *)

\* n characters from offset i are removed; the cursor stays at i.
Removes(i, n) == Edits(Spliced(Text, i, n, <<>>), W.size - n, i, {})

\* The cursor, at cur, ends the mark: Backspace, Delete and Cut remove what is
\* before the cursor, whichever of the two ends it is.
RemovesMark(cur) ==
    IF cur < mark.in
    THEN /\ Happens({"backwards"})
         /\ UNCHANGED <<running, usbkbd_used, window, active, ed, disk, dropped>>
    ELSE Removes(mark.in, cur - mark.in)

\* A key that uses the mark does nothing while the mark is empty.
EmptyMark(cur) ==
    /\ cur = mark.in
    /\ Goes(cur)
    /\ UNCHANGED <<mark, clip, mishaps>>

Backspace ==
    /\ Key
    /\ Cur > 0
    /\ LET cur == IF AtLf THEN Cur + 1 ELSE Cur IN
       \/ /\ mark.on
          /\ \/ EmptyMark(cur)
             \/ /\ cur # mark.in
                /\ RemovesMark(cur)
                /\ mark' = NoMark
                /\ UNCHANGED clip
       \/ /\ ~mark.on
          /\ IF W.mode = "other" /\ IsCrLf(Text, cur - 2)
             THEN Removes(cur - 2, 2)
             ELSE Removes(cur - 1, 1)
          /\ UNCHANGED <<mark, clip>>

\* Only the USB keyboard has this key.
Delete ==
    /\ Key /\ usbkbd_used
    /\ Cur < ed.nChar
    /\ LET cur == EntryPoint IN
       \/ /\ mark.on
          /\ \/ EmptyMark(cur)
             \/ /\ cur # mark.in
                /\ RemovesMark(cur)
                /\ mark' = NoMark
                /\ UNCHANGED clip
       \/ /\ ~mark.on
          /\ IF CharAt(Text, cur) = "end" THEN Edits(Text, W.size - 1, cur, {"past_end"})
             ELSE IF W.mode = "other" /\ IsCrLf(Text, cur) THEN Removes(cur, 2)
             ELSE IF W.mode = "other" /\ CharAt(Text, cur) = "lf"
             THEN /\ Happens({"lone_lf"})
                  /\ UNCHANGED <<running, usbkbd_used, window, active, ed, disk,
                                 dropped>>
             ELSE Removes(cur, 1)
          /\ UNCHANGED <<mark, clip>>

----------------------------------------------------------------------------
(* The mark and the copy buffer.                                           *)

\* Marking starts at the CR of a line end, and empties the copy buffer.
Mark ==
    /\ Key
    /\ IF mark.on
       THEN /\ mark' = [mark EXCEPT !.on = FALSE]
            /\ Goes(Cur)
            /\ UNCHANGED clip
       ELSE /\ mark' = [on |-> TRUE, in |-> EntryPoint]
            /\ Goes(EntryPoint)
            /\ clip' = NoClip
    /\ UNCHANGED mishaps

\* The end of a mark takes the LF of a line end with it.
\* Mutation: it does not
MarkEndAtLf == Cur
MarkEnd == IF AtLf THEN Cur + 1 ELSE Cur

\* What a mark that was carried from a longer text takes from beyond the end of
\* this one is not known.
MarkBeyond == mark.in > Len(Text)

Marked(cur) ==
    [text |-> IF cur >= mark.in THEN SubSeq(Text, mark.in + 1, cur)
              ELSE SubSeq(Text, cur + 1, IF MarkBeyond THEN Len(Text) ELSE mark.in),
     mode |-> W.mode]

\* Ctrl+c moves the cursor over the LF even when nothing is marked.
Copy ==
    /\ Key
    /\ \/ /\ mark.on
          /\ \/ EmptyMark(MarkEnd)
             \/ /\ MarkEnd # mark.in
                /\ clip' = Marked(MarkEnd)
                /\ mark' = NoMark
                /\ Goes(MarkEnd)
                /\ Happens(IF MarkBeyond THEN {"past_end"} ELSE {})
       \/ /\ ~mark.on /\ usbkbd_used
          /\ Goes(MarkEnd)
          /\ UNCHANGED <<mark, clip, mishaps>>

Cut ==
    /\ Key
    /\ mark.on
    /\ \/ EmptyMark(MarkEnd)
       \/ /\ MarkEnd # mark.in
          /\ clip' = Marked(MarkEnd)
          /\ mark' = NoMark
          /\ RemovesMark(MarkEnd)

----------------------------------------------------------------------------
(* Modes and keyboards.                                                    *)

\* Editor_RetMode counts one further than there are line ends.
ReturnMode ==
    /\ Key
    /\ LET now == IF \E i \in 1 .. 3 : RetModes[i] = ed.ret
                  THEN CHOOSE i \in 1 .. 3 : RetModes[i] = ed.ret ELSE 0
       IN  ed' = [ed EXCEPT !.ret = RetModes[now + 1]]
    /\ UNCHANGED <<running, usbkbd_used, window, active, mark, clip, disk,
                   dropped, mishaps>>

InsertMode ==
    /\ Key
    /\ ed' = [ed EXCEPT !.insert = ~@]
    /\ UNCHANGED <<running, usbkbd_used, window, active, mark, clip, disk,
                   dropped, mishaps>>

\* Select: the virtual keyboard opens over an open window, and closes.
VirtualKeyboard ==
    /\ running
    /\ ed.kbd \/ W.opened
    /\ ed' = [ed EXCEPT !.kbd = ~@]
    /\ UNCHANGED <<running, usbkbd_used, window, active, mark, clip, disk,
                   dropped, mishaps>>

----------------------------------------------------------------------------
(* The menu.                                                               *)

Opened(win) == {w \in Windows : win[w].opened}

\* The choices that the menu offers.
MenuEditor(choice) ==
    /\ running
    /\ choice \in {"close", "save", "save_as"} => W.opened
    /\ choice = "save" => ~W.created
    /\ choice = "windows" => Opened(window) # {}

\* A window for New and Open: the first that is not open.
FreeWindow == CHOOSE w \in Windows \ Opened(window) :
                  \A v \in Windows \ Opened(window) : w <= v

\* Label fail: the last open window becomes the active one.
LastOpened(win, a) ==
    IF Opened(win) = {} THEN a
    ELSE CHOOSE w \in Opened(win) : \A v \in Opened(win) : v <= w

\* Init() takes a mark that is being made away, but no copy buffer.
Unmarked == IF mark.on THEN NoMark ELSE mark

New ==
    /\ MenuEditor("new")
    /\ Opened(window) # Windows
    /\ LET w == FreeWindow
           new == [window[w] EXCEPT !.created = TRUE, !.opened = TRUE, !.saved = FALSE,
                                    !.text = <<>>, !.size = 1, !.mode = "other",
                                    !.extra = 1]
           win == [window EXCEPT ![w] = new]
       IN  /\ window' = win
           /\ active' = w
           /\ ed' = Ruled(win, w, Fresh("other"))
    /\ mark' = Unmarked
    /\ UNCHANGED <<running, usbkbd_used, clip, disk, dropped, mishaps>>

\* The first line end decides: Open scans for it.
ModeOf(file) ==
    LET ends == {i \in 1 .. Len(file) : file[i] \in {"cr", "lf"}} IN
    IF ends = {} THEN "none"
    ELSE LET i == CHOOSE i \in ends : \A j \in ends : i <= j IN
         IF file[i] = "lf" THEN "mac"
         ELSE IF IsCrLf(file, i - 1) THEN "other" ELSE "unix"

String(file) ==
    LET zeros == {i \in 1 .. Len(file) : file[i] = "nul"} IN
    IF zeros = {} THEN file
    ELSE SubSeq(file, 1, (CHOOSE i \in zeros : \A j \in zeros : i <= j) - 1)

\* The window after a successful Open.
Loaded(w, n) ==
    LET mode == ModeOf(disk[n]) IN
    [window[w] EXCEPT !.opened = TRUE, !.saved = FALSE, !.text = String(disk[n]),
                      !.size = Len(disk[n]), !.path = n,
                      !.mode = IF mode = "none" THEN window[w].mode ELSE mode,
                      !.extra = Len(disk[n]) - Len(String(disk[n]))]

Opens(w, n) ==
    LET win == [window EXCEPT ![w] = Loaded(w, n)] IN
    /\ disk[n] # <<>>
    /\ window' = win
    /\ active' = w
    /\ ed' = Ruled(win, w, Fresh(win[w].mode))
    /\ mark' = Unmarked
    /\ Happens(IF win[w].mode = "other" /\ ~Paired(win[w].text) THEN {"mixed"} ELSE {})
    /\ UNCHANGED <<dropped, clip>>

\* Mutation: the size of a file that cannot be loaded stays
FailedSizeStays(n) == IF n = NoPath THEN 0 ELSE Len(disk[n])
FailedSize(n) == 0

\* A file that is missing, empty or too large, or none chosen.  The last open
\* window comes in the place of the active one, with its cursor and its mark.
\* The USB keyboard is read once more before the refresh: a key that is waiting
\* there is met by the cursor as it is.
OpenFails(w, n) ==
    LET win == [window EXCEPT ![w].path = n, ![w].size = FailedSize(n)]
        a == LastOpened(win, w)
        e == Ruled(win, a, ed)
        Beyond(cur) == win[a].opened /\ cur > Len(win[a].text)
    IN  /\ window' = win
        /\ active' = a
        /\ ed' = e
        /\ \E waiting \in IF usbkbd_used /\ Beyond(Cur) THEN BOOLEAN ELSE {FALSE} :
              Happens((IF mark.on /\ a # active THEN {"carried"} ELSE {})
                      \cup (IF Beyond(e.cur) THEN {"past_end"} ELSE {})
                      \cup (IF waiting THEN {"unruled"} ELSE {}))
        /\ UNCHANGED <<mark, clip, dropped>>

Open ==
    /\ MenuEditor("open")
    /\ Opened(window) # Windows
    /\ \E n \in Names :
          \/ Opens(FreeWindow, n)
          \/ OpenFails(FreeWindow, n)
          \/ OpenFails(FreeWindow, NoPath)
    /\ UNCHANGED <<running, usbkbd_used, disk>>

\* The windows whose text is not that of their file.
Unheld == {w \in Opened(window) :
              window[w].text # (IF window[w].created THEN <<>>
                                ELSE String(disk[window[w].path]))}

\* The answer to ynDialog, which is not asked about a saved text.
Unsaved(ws) == \E w \in ws : ~window[w].saved
Drops(ws) == dropped' = (dropped \/ (ws \cap Unheld # {} /\ ~Unsaved(ws)))

\* Close sets the mode before Init() takes Editor_RetMode from it.
Close ==
    /\ MenuEditor("close")
    /\ LET win == [window EXCEPT ![active] = Free]
           a == LastOpened(win, active)
       IN  /\ window' = win
           /\ active' = a
           /\ ed' = Ruled(win, a, Fresh("none"))
    /\ mark' = Unmarked
    /\ Drops({active})
    /\ UNCHANGED <<running, usbkbd_used, clip, disk, mishaps>>

\* What a save writes: as many bytes as are counted, of the string, its
\* terminator and what comes after it; one less in mode other if the byte after
\* these, which nothing has set, is an LF.
Bytes ==
    LET all == Text \o [i \in 1 .. W.size - Len(Text) |-> "nul"] IN
    {all} \cup (IF W.mode = "other" /\ W.size > Len(Text)
                THEN {SubSeq(all, 1, Len(all) - 1)} ELSE {})

\* Other windows with this file that have saved another text to it.
Overwrites(n) ==
    \E w \in Opened(window) \ {active} :
        window[w].saved /\ window[w].path = n /\ window[w].text # Text

\* The file is cut off and written; the result of the write is not looked at,
\* and other windows not either.
Writes(n) ==
    LET over == IF Overwrites(n) THEN {"overwritten"} ELSE {} IN
    \/ /\ \E bytes \in Bytes : disk' = [disk EXCEPT ![n] = bytes]
       /\ Happens(over)
    \/ /\ disk' = [disk EXCEPT ![n] = <<>>]
       /\ Happens(over \cup {"short"})

\* Of a save that cannot open its file nothing remains.
Save ==
    /\ MenuEditor("save")
    /\ Writes(W.path)
    /\ window' = [window EXCEPT ![active].saved = TRUE]
    /\ UNCHANGED <<running, usbkbd_used, active, ed, mark, clip, dropped>>

SaveAs ==
    /\ MenuEditor("save_as")
    /\ \E n \in Names :
          /\ Writes(n)
          /\ window' = [window EXCEPT ![active].created = FALSE,
                                      ![active].saved = TRUE, ![active].path = n]
    /\ UNCHANGED <<running, usbkbd_used, active, ed, mark, clip, dropped>>

\* The selector offers free windows too.
Select ==
    /\ MenuEditor("windows")
    /\ \E w \in Windows :
          /\ active' = w
          /\ ed' = Ruled(window, w, Fresh(window[w].mode))
    /\ mark' = Unmarked
    /\ UNCHANGED <<running, usbkbd_used, window, clip, disk, dropped, mishaps>>

\* Mutation: only the active window is looked at
ExitDropsActive == dropped' = (dropped \/ (Unheld # {} /\ ~Unsaved({active})))

ExitDrops == Drops(Windows)

\* Every window is closed, after one question for all.
Exit ==
    /\ MenuEditor("exit")
    /\ running' = FALSE
    /\ window' = [w \in Windows |-> Free]
    /\ ed' = Fresh("none")
    /\ mark' = NoMark
    /\ clip' = NoClip
    /\ ExitDrops
    /\ UNCHANGED <<usbkbd_used, active, disk, mishaps>>

\* TextEditor(path): without a path, or one whose file cannot be opened, the
\* editor starts with no window.
Start ==
    /\ ~running
    /\ running' = TRUE
    /\ \/ \E n \in Names : Opens(0, n)
       \/ /\ active' = 0
          /\ ed' = Fresh("none")
          /\ UNCHANGED <<window, mark, clip, dropped, mishaps>>
    /\ UNCHANGED <<usbkbd_used, disk>>

----------------------------------------------------------------------------

Event ==
    \/ MoveRight \/ MoveLeft \/ MoveRows
    \/ TypeChar \/ TypeReturn \/ Paste \/ KeyWithoutWindow
    \/ Backspace \/ Delete
    \/ Mark \/ Copy \/ Cut
    \/ ReturnMode \/ InsertMode \/ VirtualKeyboard
    \/ New \/ Open \/ Close \/ Save \/ SaveAs \/ Select \/ Exit \/ Start

Next ==
    \/ /\ ~Over
       /\ events < MaxEvents
       /\ Event
       /\ events' = events + 1
    \/ /\ Over \/ events = MaxEvents
       /\ UNCHANGED vars

Spec == Init /\ [][Next]_vars

----------------------------------------------------------------------------
(* Properties.                                                             *)

\* The size counted for every open text is that of the string, plus the byte
\* a new window starts with; the cursor is in the text, and so is the start of
\* the mark.  (Offsets are chosen case by case, and the string is never
\* measured.)
BufferSound ==
    ~Over =>
        /\ \A w \in Opened(window) : window[w].size = Len(window[w].text) + window[w].extra
        /\ W.opened => Cur <= Len(Text)
        /\ W.opened /\ mark.on /\ "carried" \notin mishaps => mark.in <= Len(Text)

\* In mode other no edit parts the CR of a line end from its LF, in the text
\* or in the copy buffer.
LineEndsWhole ==
    ~Over /\ mishaps \cap {"mixed", "carried", "shifted"} = {} =>
        /\ \A w \in Opened(window) :
              window[w].mode = "other" => Paired(window[w].text)
        /\ clip.mode = "other" => Paired(clip.text)

\* No text that differs from its file is given up without a question, unless
\* one was changed after a save (no edit takes Window[SAVED] back), the write
\* of a save failed, or a window was saved over the file of another (which
\* keeps its Window[SAVED]).
EditsAskedFor == mishaps \cap {"resaved", "short", "overwritten"} = {} => ~dropped
=============================================================================
