---------------------------- MODULE MountsProofs ----------------------------
(***************************************************************************)
(* What holds of the mountpoint manager for every set of partitions and    *)
(* whatever units FTP clients take.  The lemmas follow the code: Least and *)
(* unmountParty, then a successful mount, then the loop that reclaims      *)
(* units, then mountParty; the theorems go through the actions.  A second  *)
(* part follows the users of a unit.                                       *)
(***************************************************************************)
EXTENDS Mounts, TLAPS

\* A table state of the right type
StateOK(m) ==
    /\ m = [tab |-> m.tab, pfs |-> m.pfs, latest |-> m.latest, pin |-> m.pin]
    /\ m.tab \in [Slots -> PartyOrNone]
    /\ m.pfs \in [Slots -> PartyOrNone]
    /\ m.latest \in Slots \cup {NoIx}
    /\ m.pin \in [Slots -> Vmcs \cup {NoIx}]

\* TableTrue and OneUnitPerParty of a table state
Faithful(m) == \A u \in Slots : m.tab[u] # None => m.pfs[u] = m.tab[u]
Single(m) == \A u, w \in Slots : m.tab[u] # None /\ m.tab[u] = m.tab[w] => u = w

-----------------------------------------------------------------------------
LEMMA SlotsAre == Slots = {0, 1, 2, 3} /\ NoIx \notin Slots
BY DEF Slots, MountLimit, NoIx

\* Least picks the smallest unit of a nonempty set of units
LEMMA LeastIn ==
    ASSUME NEW S \in SUBSET Slots, S # {}
    PROVE  Least(S) \in S /\ \A j \in S : Least(S) <= j
<1>1. \E i \in S : \A j \in S : i <= j
  <2>1. CASE 0 \in S
    BY <2>1, SlotsAre
  <2>2. CASE 0 \notin S /\ 1 \in S
    BY <2>2, SlotsAre
  <2>3. CASE 0 \notin S /\ 1 \notin S /\ 2 \in S
    BY <2>3, SlotsAre
  <2>4. CASE 0 \notin S /\ 1 \notin S /\ 2 \notin S
    <3>1. PICK i \in S : TRUE
      OBVIOUS
    <3>2. \A k \in S : k = 3
      BY <2>4, SlotsAre
    <3> QED BY <3>1, <3>2
  <2> QED BY <2>1, <2>2, <2>3, <2>4
<1> QED BY <1>1 DEF Least

\* unmountParty empties entries and nothing else
LEMMA UnmountSetOK ==
    ASSUME NEW m, StateOK(m), NEW S, NEW held
    PROVE  /\ StateOK(UnmountSet(m, S, held))
           /\ UnmountSet(m, S, held).pin = m.pin
           /\ \A u \in Slots : UnmountSet(m, S, held).tab[u] \in {m.tab[u], None}
           /\ Faithful(m) => Faithful(UnmountSet(m, S, held))
           /\ Single(m) => Single(UnmountSet(m, S, held))
<1> DEFINE gone == {u \in S \cap Slots : m.pfs[u] # None /\ u \notin held}
           n == UnmountSet(m, S, held)
<1>1. /\ n.tab = [u \in Slots |-> IF u \in gone THEN None ELSE m.tab[u]]
      /\ n.pfs = [u \in Slots |-> IF u \in gone THEN None ELSE m.pfs[u]]
      /\ n.latest = IF m.latest \in gone THEN NoIx ELSE m.latest
      /\ n.pin = m.pin
      /\ n = [tab |-> n.tab, pfs |-> n.pfs, latest |-> n.latest, pin |-> n.pin]
  BY DEF UnmountSet
<1> HIDE DEF n, gone
<1>2. StateOK(n)
  BY <1>1 DEF StateOK, PartyOrNone
<1>3. \A u \in Slots : n.tab[u] \in {m.tab[u], None}
  BY <1>1
<1>4. Faithful(m) => Faithful(n)
  BY <1>1 DEF Faithful
<1>5. Single(m) => Single(n)
  BY <1>1 DEF Single
<1> QED BY <1>1, <1>2, <1>3, <1>4, <1>5 DEF n

\* A successful mount of a partition that is not in the table
LEMMA FillOK ==
    ASSUME NEW m, StateOK(m), NEW u \in Slots, NEW p \in Parties
    PROVE  /\ StateOK(Fill(m, u, p))
           /\ Fill(m, u, p).pin = m.pin
           /\ Faithful(m) => Faithful(Fill(m, u, p))
           /\ Single(m) /\ (\A w \in Slots : m.tab[w] # p) => Single(Fill(m, u, p))
<1> DEFINE n == Fill(m, u, p)
<1>1. /\ n.tab = [m.tab EXCEPT ![u] = p]
      /\ n.pfs = [m.pfs EXCEPT ![u] = p]
      /\ n.latest = u
      /\ n.pin = m.pin
      /\ n = [tab |-> n.tab, pfs |-> n.pfs, latest |-> n.latest, pin |-> n.pin]
  BY DEF Fill
<1> HIDE DEF n
<1>2. StateOK(n)
  BY <1>1 DEF StateOK, PartyOrNone
<1>3. Faithful(m) => Faithful(n)
  BY <1>1 DEF Faithful, StateOK
<1>4. Single(m) /\ (\A w \in Slots : m.tab[w] # p) => Single(n)
  BY <1>1 DEF Single, StateOK
<1> QED BY <1>1, <1>2, <1>3, <1>4 DEF n

\* The loop against stolen mountpoints
LEMMA ReclaimOK ==
    ASSUME NEW m, StateOK(m), NEW p \in Parties, NEW can, NEW held
    PROVE  LET r == Reclaim(m, p, can, held)
           IN  /\ StateOK(r.m)
               /\ r.ret \in Slots \cup {NoIx}
               /\ r.m.pin = m.pin
               /\ Faithful(m) => Faithful(r.m)
               /\ Single(m) /\ (\A w \in Slots : m.tab[w] # p) => Single(r.m)
<1> DEFINE won == {u \in Evictable(m) : LoopWorks(m, u, can, held)}
           n == UnmountSet(m, LoopPrefix(m, Least(won)), held)
           z == UnmountSet(m, Evictable(m), held)
<1>1. CASE won = {}
  <2>1. Reclaim(m, p, can, held) = [m |-> z, ret |-> NoIx]
    BY <1>1 DEF Reclaim
  <2> QED BY <2>1, UnmountSetOK
<1>2. CASE won # {}
  <2>1. Least(won) \in Slots
    BY <1>2, LeastIn DEF Evictable
  <2>2. Reclaim(m, p, can, held) = [m |-> Fill(n, Least(won), p), ret |-> Least(won)]
    BY <1>2 DEF Reclaim
  <2> HIDE DEF won
  <2>3. /\ StateOK(n)
        /\ n.pin = m.pin
        /\ \A u \in Slots : n.tab[u] \in {m.tab[u], None}
        /\ Faithful(m) => Faithful(n)
        /\ Single(m) => Single(n)
    BY UnmountSetOK
  <2> HIDE DEF n
  <2>4. (\A w \in Slots : m.tab[w] # p) => \A w \in Slots : n.tab[w] # p
    BY <2>3, MountAssumption
  <2> QED BY <2>1, <2>2, <2>3, <2>4, FillOK
<1> QED BY <1>1, <1>2

\* mountParty as a whole
LEMMA MountPartyOK ==
    ASSUME NEW m, StateOK(m), NEW p \in Parties, NEW can, NEW held
    PROVE  LET r == MountParty(m, p, can, held)
           IN  /\ StateOK(r.m)
               /\ r.ret \in Slots \cup {NoIx}
               /\ r.m.pin = m.pin
               /\ Faithful(m) => Faithful(r.m)
               /\ Single(m) => Single(r.m)
<1> DEFINE hits == {u \in Slots : m.tab[u] = p}
           room == MakeRoom(m, held)
           j == FirstChoice(m)
           r == MountParty(m, p, can, held)
<1>1. CASE hits # {}
  <2>1. r = [m |-> [m EXCEPT !.latest = Least(hits)], ret |-> Least(hits)]
    BY <1>1 DEF MountParty
  <2>2. Least(hits) \in Slots
    BY <1>1, LeastIn
  <2> HIDE DEF hits, r
  <2>3. /\ r.m.tab = m.tab /\ r.m.pfs = m.pfs /\ r.m.pin = m.pin
        /\ r.m.latest = Least(hits) /\ r.ret = Least(hits)
        /\ r.m = [tab |-> r.m.tab, pfs |-> r.m.pfs, latest |-> r.m.latest, pin |-> r.m.pin]
    BY <2>1 DEF StateOK
  <2> QED BY <2>2, <2>3 DEF StateOK, Faithful, Single, r
<1>2. CASE hits = {}
  <2>1. /\ StateOK(room) /\ room.pin = m.pin
        /\ \A u \in Slots : room.tab[u] \in {m.tab[u], None}
        /\ Faithful(m) => Faithful(room)
        /\ Single(m) => Single(room)
    BY UnmountSetOK DEF MakeRoom
  <2>2. \A w \in Slots : room.tab[w] # p
    BY <1>2, <2>1, MountAssumption
  <2>3. CASE can /\ j \in Slots /\ room.pfs[j] = None
    <3>1. r = [m |-> Fill(room, j, p), ret |-> j]
      BY <1>2, <2>3 DEF MountParty
    <3> HIDE DEF room, j
    <3>2. /\ StateOK(Fill(room, j, p)) /\ Fill(room, j, p).pin = m.pin
          /\ Faithful(m) => Faithful(Fill(room, j, p))
          /\ Single(m) => Single(Fill(room, j, p))
      BY <2>1, <2>2, <2>3, FillOK
    <3>3. r.m = Fill(room, j, p) /\ r.ret = j
      BY <3>1
    <3> QED BY <2>3, <3>2, <3>3
  <2>4. CASE ~(can /\ j \in Slots /\ room.pfs[j] = None)
    <3>1. r = Reclaim(room, p, can, held)
      BY <1>2, <2>4 DEF MountParty
    <3> QED BY <2>1, <2>2, <3>1, ReclaimOK
  <2> QED BY <2>3, <2>4
<1> QED BY <1>1, <1>2

-----------------------------------------------------------------------------
LEMMA NowOK == TypeOK => StateOK(Now)
BY DEF TypeOK, StateOK, Now

\* Each way the table changes leaves a table state of the right type
LEMMA OutcomesOK ==
    ASSUME TypeOK, NEW p \in Parties, NEW r \in Outcomes(p)
    PROVE  /\ StateOK(r.m)
           /\ r.ret \in Slots \cup {NoIx}
           /\ Faithful(Now) => Faithful(r.m)
           /\ Single(Now) => Single(r.m)
<1>1. PICK can \in BOOLEAN, held \in Held(OpenImages) : r = MountParty(Now, p, can, held)
  BY DEF Outcomes
<1> QED BY <1>1, NowOK, MountPartyOK

LEMMA AllUnmountedOK ==
    ASSUME TypeOK, NEW held
    PROVE  StateOK(AllUnmounted(held)) /\ Faithful(AllUnmounted(held))
                                       /\ Single(AllUnmounted(held))
BY DEF AllUnmounted, TypeOK, StateOK, Faithful, Single, PartyOrNone

\* SetTable makes m the table
LEMMA SetTableOK ==
    ASSUME NEW m, StateOK(m), SetTable(m)
    PROVE  /\ mountedParty' \in [Slots -> PartyOrNone]
           /\ pfs' \in [Slots -> PartyOrNone]
           /\ latestMount' \in Slots \cup {NoIx}
           /\ Faithful(m) => Faithful(Now')
           /\ Single(m) => Single(Now')
BY DEF StateOK, SetTable, Faithful, Single, Now

LEMMA PinsWithoutType ==
    ASSUME TypeOK, NEW v \in Vmcs
    PROVE  PinsWithout(v) \in [Slots -> Vmcs \cup {NoIx}]
BY DEF PinsWithout, TypeOK

\* A step leaves the table well typed, and one that was single single; one that was
\* faithful stays so while the FTP server is not loaded
Good ==
    /\ mountedParty' \in [Slots -> PartyOrNone]
    /\ pfs' \in [Slots -> PartyOrNone]
    /\ latestMount' \in Slots \cup {NoIx}
    /\ Faithful(Now) /\ ~ftpRunning => Faithful(Now')
    /\ Single(Now) => Single(Now')

\* Every step of every action is such a step.
LEMMA TableStep ==
    ASSUME TypeOK, ListNamesPath, [Next]_vars
    PROVE  Good
<1>1. ASSUME UNCHANGED table PROVE Good
  BY <1>1 DEF Good, TypeOK, table, Now, Faithful, Single
<1>2. ASSUME NEW p \in Parties, NEW r \in Outcomes(p), SetTable(r.m) PROVE Good
  BY <1>2, OutcomesOK, SetTableOK DEF Good
<1>3. ASSUME NEW held, SetTable(AllUnmounted(held)) PROVE Good
  BY <1>3, AllUnmountedOK, SetTableOK DEF Good
<1>4. ASSUME NEW held, NEW S, SetTable(UnmountSet(AllUnmounted(held), S, held)) PROVE Good
  BY <1>4, AllUnmountedOK, UnmountSetOK, SetTableOK DEF Good
<1>5. ASSUME NEW p \in Parties, NEW can, NEW held, NEW S,
             SetTable(UnmountSet(MountParty(Now, p, can, held).m, S, held))
      PROVE  Good
  <2>1. LET m == MountParty(Now, p, can, held).m
        IN  StateOK(m) /\ (Faithful(Now) => Faithful(m)) /\ (Single(Now) => Single(m))
    BY NowOK, MountPartyOK
  <2> QED BY <1>5, <2>1, UnmountSetOK, SetTableOK DEF Good
<1>6. ASSUME NEW v \in Vmcs, MountVmc(v) PROVE Good
  <2>1. CASE UNCHANGED table
    BY <1>1, <2>1
  <2>2. CASE ~UNCHANGED table
    <3> DEFINE m == [Now EXCEPT !.pin = PinsWithout(v)]
    <3>1. PICK can \in BOOLEAN, held \in Held(OtherImages(v) \cup ({FileWithout(v)} \ {NoIx})) :
             SetTable(MountParty(m, path, can, held).m)
      BY <1>6, <2>2 DEF MountVmc
    <3>2. path \in Parties
      BY <1>6, <2>2 DEF MountVmc, TypeOK, PartyOrNone, ListNamesPath
    <3>3. StateOK(m) /\ (Faithful(Now) => Faithful(m)) /\ (Single(Now) => Single(m))
      BY PinsWithoutType DEF StateOK, Faithful, Single, Now, TypeOK
    <3> HIDE DEF m
    <3> QED BY <3>1, <3>2, <3>3, MountPartyOK, SetTableOK DEF Good
  <2> QED BY <2>1, <2>2
<1>7. CASE UNCHANGED vars
  BY <1>1, <1>7 DEF vars
<1>8. CASE EnterBrowser \/ LeaveBrowser
  BY <1>3, <1>8 DEF EnterBrowser, LeaveBrowser
<1>9. CASE HddManager
  BY <1>4, <1>9 DEF HddManager
<1>10. ASSUME NEW p \in Parties, ReadHDD(p) \/ CheckELFheader(p) \/ FixPathUse(p)
                                            \/ LoadExternalFile(p)
       PROVE  Good
  BY <1>2, <1>10 DEF ReadHDD, CheckELFheader, FixPathUse, LoadExternalFile
<1>11. CASE UseListed \/ GetGameTitle
  <2>1. path \in Parties
    BY <1>11 DEF UseListed, GetGameTitle, Listed, ListNamesPath, TypeOK, PartyOrNone
  <2> QED BY <1>2, <1>11, <2>1 DEF UseListed, GetGameTitle
<1>12. ASSUME NEW q \in PartyOrNone, CopyIn(q) PROVE Good
  BY <1>1, <1>2, <1>12 DEF CopyIn, PartyOrNone
<1>13. CASE CopyOut
  BY <1>1, <1>2, <1>13 DEF CopyOut, TypeOK, PartyOrNone
<1>14. ASSUME NEW cut \in BOOLEAN, CopyEnd(cut) PROVE Good
  <2>1. copying.in \in PartyOrNone
    BY DEF TypeOK
  <2> QED BY <1>1, <1>2, <1>14, <2>1 DEF CopyEnd, PartyOrNone
<1>15. CASE ShowOther \/ CopyWrite
  BY <1>1, <1>15 DEF ShowOther, CopyWrite
<1>16. ASSUME NEW p \in Parties, EditorUse(p) \/ LoadSkin(p) PROVE Good
  BY <1>5, <1>16 DEF EditorUse, LoadSkin, UseAndUnmount
<1>17. CASE EnterViewer
  BY <1>17 DEF Good, EnterViewer, TypeOK, Now, Faithful, Single, PartyOrNone
<1>18. CASE LeaveViewer
  BY <1>18 DEF Good, LeaveViewer, TypeOK, Now, Faithful, Single, PartyOrNone
<1>19. ASSUME NEW u \in FtpReach, FtpUnmount(u) PROVE Good
  BY <1>19, MountAssumption DEF Good, FtpUnmount, TypeOK, Now, Single, PartyOrNone, FtpReach
<1>20. ASSUME NEW u \in FtpReach, NEW p \in Parties, FtpMount(u, p) PROVE Good
  BY <1>20, MountAssumption DEF Good, FtpMount, TypeOK, Now, Single, PartyOrNone, FtpReach
<1>21. CASE LoadNetModules
  BY <1>1, <1>16, <1>21 DEF LoadNetModules
<1>22. CASE Operations
  BY <1>22, <1>6, <1>8, <1>9, <1>10, <1>11, <1>12, <1>13, <1>14, <1>15, <1>16, <1>17,
     <1>18, <1>19, <1>20, Zenon DEF Operations
<1> QED BY <1>7, <1>21, <1>22 DEF Next

-----------------------------------------------------------------------------
\* MOUNTVMC keeps the two pin tables in agreement, whichever unit genFixPath gave
LEMMA SetVmcOK ==
    ASSUME TypeOK, PinsAgree, NEW v \in Vmcs, NEW m, NEW j \in Slots \cup {NoIx},
           NEW unit \in Slots \cup {NoIx}, SetVmc(v, m, j, unit)
    PROVE  /\ Party_vmcIndex' \in [Slots -> Vmcs \cup {NoIx}]
           /\ vmcMounted' \in [Vmcs -> BOOLEAN]
           /\ vmc_PartyIndex' \in [Vmcs -> Slots \cup {NoIx}]
           /\ vmcFile' \in [Vmcs -> Slots \cup {NoIx}]
           /\ PinsAgree'
<1>1. /\ PinsWithout(v) \in [Slots -> Vmcs \cup {NoIx}]
      /\ IndexWithout(v) \in Slots \cup {NoIx}
      /\ FileWithout(v) \in Slots \cup {NoIx}
  BY DEF PinsWithout, IndexWithout, FileWithout, TypeOK
<1>2. /\ Party_vmcIndex' \in [Slots -> Vmcs \cup {NoIx}]
      /\ vmcMounted' \in [Vmcs -> BOOLEAN]
      /\ vmc_PartyIndex' \in [Vmcs -> Slots \cup {NoIx}]
      /\ vmcFile' \in [Vmcs -> Slots \cup {NoIx}]
  <2>1. Party_vmcIndex' \in [Slots -> Vmcs \cup {NoIx}]
    BY <1>1 DEF SetVmc
  <2>2. vmcMounted' \in [Vmcs -> BOOLEAN]
    <3>1. vmcMounted' = [vmcMounted EXCEPT ![v] = TRUE]
            \/ vmcMounted' = [vmcMounted EXCEPT ![v] = FALSE]
      BY DEF SetVmc
    <3> QED BY <3>1, Zenon DEF TypeOK
  <2>3. /\ vmc_PartyIndex' \in [Vmcs -> Slots \cup {NoIx}]
        /\ vmcFile' \in [Vmcs -> Slots \cup {NoIx}]
    BY <1>1 DEF SetVmc, TypeOK
  <2> QED BY <2>1, <2>2, <2>3
<1>3. IndexWithout(v) = NoIx
  BY DEF IndexWithout, PinsAgree
<1>4. 1 - v \in Vmcs /\ 1 - v # v /\ \A w \in Vmcs : w \in {v, 1 - v}
  BY DEF Vmcs
<1>5. /\ vmc_PartyIndex[1 - v] # NoIx => PinsWithout(v)[vmc_PartyIndex[1 - v]] # NoIx
      /\ \A u \in Slots : PinsWithout(v)[u] # NoIx => vmc_PartyIndex[1 - v] = u
  BY <1>4, SlotsAre DEF PinsWithout, PinsAgree, TypeOK, Vmcs, NoIx
<1>6. PinsAgree'
  BY <1>1, <1>2, <1>3, <1>4, <1>5 DEF SetVmc, PinsAgree, TypeOK, Vmcs, NoIx
<1> QED BY <1>2, <1>6

\* The pins are well typed and agree after the step
PinsGood ==
    /\ Party_vmcIndex' \in [Slots -> Vmcs \cup {NoIx}]
    /\ vmcMounted' \in [Vmcs -> BOOLEAN]
    /\ vmc_PartyIndex' \in [Vmcs -> Slots \cup {NoIx}]
    /\ vmcFile' \in [Vmcs -> Slots \cup {NoIx}]
    /\ PinsAgree'

LEMMA PinsStep ==
    ASSUME TypeOK, ListNamesPath, PinsAgree, [Next]_vars
    PROVE  PinsGood
<1>1. ASSUME UNCHANGED pins PROVE PinsGood
  BY <1>1 DEF PinsGood, TypeOK, PinsAgree, pins
<1>2. ASSUME ClearVmcs PROVE PinsGood
  BY <1>2 DEF PinsGood, ClearVmcs, TypeOK, PinsAgree, Vmcs
<1>3. ASSUME NEW v \in Vmcs, MountVmc(v) PROVE PinsGood
  <2>1. CASE SetVmc(v, Now, NoIx, NoIx)
    BY <2>1, SetVmcOK DEF PinsGood
  <2>2. CASE ~SetVmc(v, Now, NoIx, NoIx)
    <3> DEFINE m == [Now EXCEPT !.pin = PinsWithout(v)]
    <3>1. path \in Parties
      BY <1>3, <2>2 DEF MountVmc, TypeOK, PartyOrNone, ListNamesPath
    <3>2. StateOK(m)
      BY PinsWithoutType DEF StateOK, Now, TypeOK
    <3>3. PICK can \in BOOLEAN, held \in Held(OtherImages(v) \cup ({FileWithout(v)} \ {NoIx})) :
             LET r == MountParty(m, path, can, held)
             IN  SetVmc(v, r.m, r.ret, IF r.ret = NoIx THEN 0 ELSE r.ret)
      BY <1>3, <2>2 DEF MountVmc
    <3> HIDE DEF m
    <3>4. MountParty(m, path, can, held).ret \in Slots \cup {NoIx}
      BY <3>1, <3>2, MountPartyOK
    <3>5. (IF MountParty(m, path, can, held).ret = NoIx
           THEN 0 ELSE MountParty(m, path, can, held).ret) \in Slots \cup {NoIx}
      BY <3>4, SlotsAre
    <3> QED BY <3>3, <3>4, <3>5, SetVmcOK DEF PinsGood
  <2> QED BY <2>1, <2>2
<1>4. CASE Operations
  <2>1. CASE EnterBrowser \/ LeaveBrowser \/ HddManager
    BY <1>2, <2>1 DEF EnterBrowser, LeaveBrowser, HddManager
  <2>2. CASE \E v \in Vmcs : MountVmc(v)
    BY <1>3, <2>2
  <2>3. CASE \E p \in Parties : \/ ReadHDD(p) \/ CheckELFheader(p) \/ FixPathUse(p)
                              \/ EditorUse(p) \/ LoadSkin(p) \/ LoadExternalFile(p)
    BY <1>1, <2>3 DEF ReadHDD, CheckELFheader, FixPathUse, EditorUse, LoadSkin,
                      UseAndUnmount, LoadExternalFile
  <2>4. CASE ShowOther \/ UseListed \/ GetGameTitle
    BY <1>1, <2>4 DEF ShowOther, UseListed, GetGameTitle
  <2>5. CASE \/ \E q \in PartyOrNone : CopyIn(q)
             \/ CopyOut \/ CopyWrite
             \/ \E cut \in BOOLEAN : CopyEnd(cut)
    BY <1>1, <2>5 DEF CopyIn, CopyOut, CopyWrite, CopyEnd
  <2>6. CASE EnterViewer \/ LeaveViewer
    BY <1>1, <2>6 DEF EnterViewer, LeaveViewer
  <2>7. CASE \/ \E u \in FtpReach : FtpUnmount(u)
             \/ \E u \in FtpReach, p \in Parties : FtpMount(u, p)
    BY <1>1, <2>7 DEF FtpUnmount, FtpMount
  <2> QED BY <1>4, <2>1, <2>2, <2>3, <2>4, <2>5, <2>6, <2>7, Zenon
         DEF Operations
<1>5. CASE LoadNetModules
  BY <1>1, <1>5 DEF LoadNetModules, LoadSkin, UseAndUnmount
<1> QED BY <1>1, <1>4, <1>5 DEF vars, Next

-----------------------------------------------------------------------------
\* The screens, the copy in progress and the last use are well typed
UiGood ==
    /\ ftpRunning' \in BOOLEAN
    /\ screen' \in {"main", "browser", "viewer"}
    /\ path' \in PartyOrNone
    /\ listing' \in {"ok", "empty", "stale"}
    /\ copying' \in [stage : {"idle", "mountOut", "work"}, in : PartyOrNone,
                     pfsin : Slots \cup {NoIx}, pfsout : Slots \cup {NoIx},
                     src : {"own", "pfs", "hdd"}]
    /\ lastUse' \in [by : {"none", "index", "title", "copy", "unchecked", "external"},
                     wrong : BOOLEAN]
    /\ ListNamesPath'

\* The records lastUse may be
UseRecords == [by : {"none", "index", "title", "copy", "unchecked", "external"},
               wrong : BOOLEAN]

LEMMA UseType ==
    ASSUME NEW who \in {"index", "title", "copy", "unchecked", "external"},
           NEW m, NEW u, NEW p
    PROVE  (NoUse \/ Use(who, m, u, p)) => lastUse' \in UseRecords
<1>1. Wrong(m, u, p) \in BOOLEAN
  BY Zenon DEF Wrong
<1>2. ASSUME NEW b \in BOOLEAN, lastUse' = [by |-> who, wrong |-> b]
      PROVE  lastUse' \in UseRecords
  BY <1>2 DEF UseRecords
<1>3. NoUse => lastUse' \in UseRecords
  BY DEF NoUse, UseRecords
<1> QED BY <1>1, <1>2, <1>3, Zenon DEF Use

LEMMA UiStep ==
    ASSUME TypeOK, ListNamesPath, [Next]_vars
    PROVE  UiGood
<1>0. ftpRunning' \in BOOLEAN
  BY DEF TypeOK, Next, vars, LoadNetModules
<1>1. CASE UNCHANGED vars
  BY <1>0, <1>1 DEF UiGood, TypeOK, ListNamesPath, vars, ui
<1>2. ASSUME UNCHANGED ui, lastUse' \in UseRecords PROVE UiGood
  BY <1>0, <1>2 DEF UiGood, UseRecords, TypeOK, ListNamesPath, ui
<1>3. NoUse => lastUse' \in UseRecords
  BY UseType
<1>4. ASSUME NEW scr \in {"main", "browser", "viewer"}, Goto(scr) PROVE UiGood
  BY <1>0, <1>3, <1>4 DEF UiGood, UseRecords, Goto, TypeOK, ListNamesPath, PartyOrNone
<1>5. CASE EnterBrowser \/ LeaveBrowser \/ EnterViewer \/ LeaveViewer
  BY <1>4, <1>5 DEF EnterBrowser, LeaveBrowser, EnterViewer, LeaveViewer
<1>6. CASE HddManager
  BY <1>2, <1>3, <1>6 DEF HddManager
<1>7. ASSUME NEW p \in Parties, ReadHDD(p) PROVE UiGood
  <2>1. lastUse' \in UseRecords
    BY <1>7, UseType DEF ReadHDD
  <2> QED BY <1>0, <1>7, <2>1, MountAssumption
          DEF ReadHDD, UiGood, UseRecords, TypeOK, ListNamesPath, PartyOrNone
<1>8. CASE ShowOther
  BY <1>0, <1>3, <1>8 DEF ShowOther, UiGood, UseRecords, TypeOK, ListNamesPath, PartyOrNone
<1>9. CASE UseListed \/ GetGameTitle
  <2>1. lastUse' \in UseRecords
    BY <1>9, UseType DEF UseListed, GetGameTitle
  <2> QED BY <1>2, <1>9, <2>1 DEF UseListed, GetGameTitle
<1>10. ASSUME NEW v \in Vmcs, MountVmc(v) PROVE UiGood
  <2>1. \/ path' = None /\ listing' = "empty"
        \/ UNCHANGED <<path, listing>>
    BY <1>10 DEF MountVmc, SetVmc
  <2> QED BY <1>0, <1>3, <1>10, <2>1
          DEF MountVmc, UiGood, UseRecords, TypeOK, ListNamesPath, PartyOrNone
<1>11. ASSUME NEW q \in PartyOrNone, CopyIn(q) PROVE UiGood
  <2>1. \E i \in Slots \cup {NoIx}, src \in {"own", "pfs", "hdd"} :
           copying' = [copying EXCEPT !.stage = "mountOut", !.in = q, !.pfsin = i, !.src = src]
    <3>1. CASE q = None
      <4>1. copying' = [copying EXCEPT !.stage = "mountOut", !.in = q,
                                      !.pfsin = copying.pfsin, !.src = copying.src]
        BY <1>11, <3>1 DEF CopyIn, TypeOK
      <4> QED BY <4>1 DEF TypeOK
    <3>2. CASE q # None
      BY <1>11, <3>2, OutcomesOK DEF CopyIn, PartyOrNone, SourcePath
    <3> QED BY <3>1, <3>2
  <2> QED BY <1>0, <1>3, <1>11, <2>1 DEF CopyIn, UiGood, UseRecords, TypeOK, ListNamesPath
<1>12. CASE CopyOut
  <2>1. \E i \in Slots \cup {NoIx} : copying' = [copying EXCEPT !.stage = "work", !.pfsout = i]
    <3>1. CASE path = None
      <4>1. copying' = [copying EXCEPT !.stage = "work", !.pfsout = copying.pfsout]
        BY <1>12, <3>1 DEF CopyOut, TypeOK
      <4> QED BY <4>1 DEF TypeOK
    <3>2. CASE path # None
      BY <1>12, <3>2, OutcomesOK DEF CopyOut, PartyOrNone, TypeOK
    <3> QED BY <3>1, <3>2
  <2> QED BY <1>0, <1>3, <1>12, <2>1 DEF CopyOut, UiGood, UseRecords, TypeOK, ListNamesPath
<1>13. CASE CopyWrite
  BY <1>2, <1>13, UseType DEF CopyWrite
<1>14. ASSUME NEW cut \in BOOLEAN, CopyEnd(cut) PROVE UiGood
  <2>1. lastUse' \in UseRecords
    BY <1>14, <1>3, UseType DEF CopyEnd
  <2> QED BY <1>0, <1>14, <2>1, SlotsAre
          DEF CopyEnd, NoCopy, UiGood, UseRecords, TypeOK, ListNamesPath, PartyOrNone
<1>15. ASSUME NEW p \in Parties, \/ CheckELFheader(p) \/ FixPathUse(p) \/ EditorUse(p)
                                 \/ LoadSkin(p) \/ LoadExternalFile(p)
       PROVE  UiGood
  <2>1. lastUse' \in UseRecords
    BY <1>15, UseType DEF CheckELFheader, FixPathUse, EditorUse, LoadSkin, UseAndUnmount,
                          LoadExternalFile
  <2>2. UNCHANGED ui
    BY <1>15 DEF CheckELFheader, FixPathUse, EditorUse, LoadSkin, UseAndUnmount,
                 LoadExternalFile
  <2> QED BY <1>2, <2>1, <2>2
<1>16. CASE \/ \E u \in FtpReach : FtpUnmount(u)
            \/ \E u \in FtpReach, p \in Parties : FtpMount(u, p)
  BY <1>2, <1>3, <1>16 DEF FtpUnmount, FtpMount
<1>17. CASE LoadNetModules
  BY <1>2, <1>3, <1>15, <1>17 DEF LoadNetModules
<1>18. CASE Operations
  BY <1>18, <1>5, <1>6, <1>7, <1>8, <1>9, <1>10, <1>11, <1>12, <1>13, <1>14, <1>15, <1>16,
     Zenon DEF Operations
<1> QED BY <1>1, <1>17, <1>18 DEF Next

-----------------------------------------------------------------------------
\* The inductive invariant.  PinsAgree and the types carry VictimExists; the table's
\* own conjuncts need only the types and that a list with entries names its partition.
IInv ==
    /\ TypeOK
    /\ ListNamesPath
    /\ PinsAgree
    /\ TableTrue
    /\ OneUnitPerParty

LEMMA TableNames ==
    /\ TableTrue <=> (~ftpRunning => Faithful(Now))
    /\ OneUnitPerParty <=> Single(Now)
BY DEF TableTrue, OneUnitPerParty, Faithful, Single, Now

LEMMA TableNamesPrime ==
    /\ TableTrue' <=> (~ftpRunning' => Faithful(Now'))
    /\ OneUnitPerParty' <=> Single(Now')
BY DEF TableTrue, OneUnitPerParty, Faithful, Single, Now

LEMMA InitIInv == Init => IInv
<1> SUFFICES ASSUME Init PROVE IInv
  OBVIOUS
<1>1. TypeOK
  BY SlotsAre DEF Init, TypeOK, PartyOrNone, NoCopy
<1> QED BY <1>1 DEF Init, IInv, ListNamesPath, PinsAgree, TableTrue, OneUnitPerParty

LEMMA NextIInv == IInv /\ [Next]_vars => IInv'
<1> SUFFICES ASSUME IInv, [Next]_vars PROVE IInv'
  OBVIOUS
<1>1. Good
  BY TableStep DEF IInv
<1>2. PinsGood
  BY PinsStep DEF IInv
<1>3. UiGood
  BY UiStep DEF IInv
<1>4. TypeOK'
  BY <1>1, <1>2, <1>3 DEF Good, PinsGood, UiGood, TypeOK
<1>5. ftpRunning => ftpRunning'
  BY DEF Next, LoadNetModules, vars
<1>6. TableTrue' /\ OneUnitPerParty'
  BY <1>1, <1>5, TableNames, TableNamesPrime DEF Good, IInv
<1> QED BY <1>2, <1>3, <1>4, <1>6 DEF PinsGood, UiGood, IInv

LEMMA IInvAlways == Spec => []IInv
BY InitIInv, NextIInv, PTL DEF Spec

\* Every reachable state is well typed.
THEOREM TypeCorrect == Spec => []TypeOK
<1>1. IInv => TypeOK
  BY DEF IInv
<1> QED BY <1>1, IInvAlways, PTL

\* The two tables of pins, kept by hand in MOUNTVMC and unmountAll, always agree.
THEOREM PinsAlwaysAgree == Spec => []PinsAgree
<1>1. IInv => PinsAgree
  BY DEF IInv
<1> QED BY <1>1, IInvAlways, PTL

\* While the FTP server does not run, the table of mountpoints is what the PFS
\* driver has mounted.
THEOREM TableAlwaysTrue == Spec => []TableTrue
<1>1. IInv => TableTrue
  BY DEF IInv
<1> QED BY <1>1, IInvAlways, PTL

\* No partition is ever in the table twice.
THEOREM PartiesSingle == Spec => []OneUnitPerParty
<1>1. IInv => OneUnitPerParty
  BY DEF IInv
<1> QED BY <1>1, IInvAlways, PTL

\* mountParty never runs out of units to evict, so it never calls unmountParty(-1).
THEOREM VictimAlwaysExists == Spec => []VictimExists
<1>1. IInv => VictimExists
  <2> SUFFICES ASSUME IInv PROVE Evictable(Now) # {}
    BY LeastIn DEF VictimExists, Victim, Evictable
  <2> DEFINE pinned == {vmc_PartyIndex[0], vmc_PartyIndex[1]}
  <2>1. \A u \in Slots : u \notin pinned => Party_vmcIndex[u] = NoIx
    BY DEF IInv, PinsAgree, Vmcs
  <2>2. PICK u \in Slots : u # latestMount /\ u \notin pinned
    BY SlotsAre
  <2>3. u \in Evictable(Now)
    BY <2>1, <2>2 DEF Evictable, Now, NoIx
  <2> QED BY <2>3
<1> QED BY <1>1, IInvAlways, PTL

-----------------------------------------------------------------------------
(***************************************************************************)
(* What holds of the units that are in use: by the image of a mounted VMC, *)
(* by copy(), by the list on the screen.  The inductive invariant above    *)
(* gives the table; here a second one, on top of it, follows the three     *)
(* users of a unit.                                                        *)
(***************************************************************************)

\* unmountParty leaves the entries of other units alone
LEMMA UnmountSetKeeps ==
    ASSUME NEW m, StateOK(m), NEW S, NEW held, NEW u \in Slots, u \notin S
    PROVE  /\ UnmountSet(m, S, held).tab[u] = m.tab[u]
           /\ m.latest = u => UnmountSet(m, S, held).latest = u
BY DEF UnmountSet

\* What the caller of a mount may rely on: the unit returned holds the partition, and
\* the entry of the unit used last is still there
Gives(m, p, r) ==
    /\ r.ret # NoIx => r.m.tab[r.ret] = p /\ r.m.latest = r.ret
    /\ m.latest \in Slots /\ m.tab[m.latest] # None => r.m.tab[m.latest] = m.tab[m.latest]

LEMMA FillGives ==
    ASSUME NEW m, StateOK(m), NEW u \in Slots, NEW p \in Parties
    PROVE  /\ Fill(m, u, p).tab[u] = p
           /\ Fill(m, u, p).latest = u
           /\ \A w \in Slots \ {u} : Fill(m, u, p).tab[w] = m.tab[w]
BY DEF Fill, StateOK

LEMMA ReclaimGives ==
    ASSUME NEW m, StateOK(m), NEW p \in Parties, NEW can, NEW held
    PROVE  Gives(m, p, Reclaim(m, p, can, held))
<1> DEFINE won == {u \in Evictable(m) : LoopWorks(m, u, can, held)}
           n == UnmountSet(m, LoopPrefix(m, Least(won)), held)
           z == UnmountSet(m, Evictable(m), held)
           r == Reclaim(m, p, can, held)
<1>1. m.latest \notin Evictable(m) /\ Evictable(m) \subseteq Slots
  BY DEF Evictable
<1>2. CASE won = {}
  <2>1. r = [m |-> z, ret |-> NoIx]
    BY <1>2 DEF Reclaim
  <2>2. m.latest \in Slots => z.tab[m.latest] = m.tab[m.latest]
    BY <1>1, UnmountSetKeeps
  <2> QED BY <2>1, <2>2 DEF Gives
<1>3. CASE won # {}
  <2>1. Least(won) \in Evictable(m)
    BY <1>1, <1>3, LeastIn
  <2>2. r = [m |-> Fill(n, Least(won), p), ret |-> Least(won)]
    BY <1>3 DEF Reclaim
  <2>3. StateOK(n)
    BY UnmountSetOK
  <2>4. m.latest \in Slots => n.tab[m.latest] = m.tab[m.latest]
    <3>1. m.latest \notin LoopPrefix(m, Least(won))
      BY <1>1 DEF LoopPrefix
    <3> QED BY <3>1, UnmountSetKeeps
  <2>5. r.ret = Least(won) /\ r.m = Fill(n, Least(won), p)
    BY <2>2
  <2> HIDE DEF won, n, r
  <2>6. Gives(m, p, r)
    BY <1>1, <2>1, <2>3, <2>4, <2>5, FillGives DEF Gives
  <2> QED BY <2>6 DEF r
<1> QED BY <1>2, <1>3

\* Making room keeps the unit used last
LEMMA MakeRoomKeeps ==
    ASSUME NEW m, StateOK(m), NEW held
    PROVE  /\ StateOK(MakeRoom(m, held))
           /\ m.latest \in Slots => /\ MakeRoom(m, held).tab[m.latest] = m.tab[m.latest]
                                    /\ MakeRoom(m, held).latest = m.latest
<1>1. m.latest \in Slots => m.latest \notin {Victim(m)}
  <2>1. CASE Evictable(m) = {}
    BY <2>1, SlotsAre DEF Victim
  <2>2. CASE Evictable(m) # {}
    BY <2>2, LeastIn DEF Victim, Evictable
  <2> QED BY <2>1, <2>2
<1> QED BY <1>1, UnmountSetOK, UnmountSetKeeps DEF MakeRoom

LEMMA MountPartyGives ==
    ASSUME NEW m, StateOK(m), NEW p \in Parties, NEW can, NEW held
    PROVE  /\ Gives(m, p, MountParty(m, p, can, held))
           /\ (\E u \in Slots : m.tab[u] = p) =>
                 /\ MountParty(m, p, can, held).ret # NoIx
                 /\ MountParty(m, p, can, held).m.tab = m.tab
<1> DEFINE hits == {u \in Slots : m.tab[u] = p}
           room == MakeRoom(m, held)
           j == FirstChoice(m)
           r == MountParty(m, p, can, held)
<1>1. CASE hits # {}
  <2>1. r = [m |-> [m EXCEPT !.latest = Least(hits)], ret |-> Least(hits)]
    BY <1>1 DEF MountParty
  <2>2. Least(hits) \in hits
    BY <1>1, LeastIn
  <2>3. m.tab[Least(hits)] = p /\ Least(hits) # NoIx
    BY <2>2, SlotsAre
  <2> HIDE DEF hits, r
  <2>4. r.m.tab = m.tab /\ r.m.latest = Least(hits) /\ r.ret = Least(hits)
    BY <2>1 DEF StateOK
  <2> QED BY <2>3, <2>4 DEF Gives, r
<1>2. CASE hits = {}
  <2>1. ~ \E u \in Slots : m.tab[u] = p
    BY <1>2
  <2>2. StateOK(room) /\ (m.latest \in Slots => room.tab[m.latest] = m.tab[m.latest]
                                                /\ room.latest = m.latest)
    BY MakeRoomKeeps
  <2>3. CASE can /\ j \in Slots /\ room.pfs[j] = None
    <3>1. r = [m |-> Fill(room, j, p), ret |-> j]
      BY <1>2, <2>3 DEF MountParty
    <3>2. m.latest \in Slots /\ m.tab[m.latest] # None => j # m.latest
      <4>1. CASE FreeEntries(m) # {}
        <5>1. j \in FreeEntries(m)
          BY <4>1, LeastIn DEF FirstChoice, FreeEntries
        <5> QED BY <5>1 DEF FreeEntries
      <4>2. CASE FreeEntries(m) = {}
        <5>1. j = Victim(m)
          BY <4>2 DEF FirstChoice
        <5>2. CASE Evictable(m) = {}
          BY <2>3, <5>1, <5>2, SlotsAre DEF Victim
        <5>3. CASE Evictable(m) # {}
          BY <5>1, <5>3, LeastIn DEF Victim, Evictable
        <5> QED BY <5>2, <5>3
      <4> QED BY <4>1, <4>2
    <3>3. r.m = Fill(room, j, p) /\ r.ret = j
      BY <3>1
    <3> HIDE DEF room, j, r
    <3>4. Fill(room, j, p).tab[j] = p /\ Fill(room, j, p).latest = j
      BY <2>2, <2>3, FillGives
    <3>5. \A w \in Slots \ {j} : Fill(room, j, p).tab[w] = room.tab[w]
      BY <2>2, <2>3, FillGives
    <3>6. Gives(m, p, r)
      BY <2>2, <2>3, <3>2, <3>3, <3>4, <3>5 DEF Gives
    <3> QED BY <2>1, <3>6 DEF r
  <2>4. CASE ~(can /\ j \in Slots /\ room.pfs[j] = None)
    <3>1. r = Reclaim(room, p, can, held)
      BY <1>2, <2>4 DEF MountParty
    <3> HIDE DEF room, r
    <3>2. Gives(room, p, r)
      BY <2>2, <3>1, ReclaimGives
    <3> QED BY <2>1, <2>2, <3>2 DEF Gives, r
  <2> QED BY <2>3, <2>4
<1> QED BY <1>1, <1>2

\* The same for the calls that are outcomes of mountParty on the table as it is
LEMMA OutcomesGive ==
    ASSUME TypeOK, NEW p \in Parties, NEW r \in Outcomes(p)
    PROVE  /\ Gives(Now, p, r)
           /\ (\E u \in Slots : mountedParty[u] = p) =>
                 r.ret # NoIx /\ r.m.tab = mountedParty
<1>1. PICK can \in BOOLEAN, held \in Held(OpenImages) : r = MountParty(Now, p, can, held)
  BY DEF Outcomes
<1>2. Now.tab = mountedParty
  BY DEF Now
<1> QED BY <1>1, <1>2, NowOK, MountPartyGives
-----------------------------------------------------------------------------
(***************************************************************************)
(* The users of a unit.                                                    *)
(***************************************************************************)
\* An image is open where its VMC's index says
ImagesKnown == \A v \in Vmcs : vmcFile[v] # NoIx => vmc_PartyIndex[v] = vmcFile[v]

\* Outside the browser no VMC is mounted
VmcsInBrowser == screen # "browser" => \A v \in Vmcs : ~vmcMounted[v]

\* While copy() works, and between its two mounts, its units hold its partitions,
\* and the first was used last until the second is mounted
CopyKnown ==
    /\ copying # NoCopy => screen = "browser" /\ copying.stage # "idle"
    /\ copying.stage # "idle" /\ copying.pfsin # NoIx =>
          copying.in # None /\ mountedParty[copying.pfsin] = copying.in
    /\ copying.stage = "mountOut" /\ copying.pfsin # NoIx => latestMount = copying.pfsin
    /\ copying.stage = "work" /\ copying.pfsout # NoIx => mountedParty[copying.pfsout] = path
    /\ path = None => copying.pfsout = NoIx

\* The partition of a list in the browser is in the table until something is copied
ListMounted ==
    screen = "browser" /\ copying = NoCopy /\ listing = "ok" =>
        \E u \in Slots : mountedParty[u] = path

\* The second inductive invariant, on top of IInv
UseInv == ImagesKnown /\ VmcsInBrowser /\ CopyKnown /\ ListMounted /\ IndexedUseRight
-----------------------------------------------------------------------------
ImagesGood == ImagesKnown' /\ VmcsInBrowser'

\* MOUNTVMC opens the image on the unit it puts into the index
LEMMA SetVmcImages ==
    ASSUME TypeOK, ImagesKnown, NEW v \in Vmcs, NEW m, NEW j, SetVmc(v, m, j, j)
    PROVE  ImagesKnown'
BY DEF SetVmc, ImagesKnown, TypeOK, IndexWithout, FileWithout

LEMMA MountVmcImages ==
    ASSUME TypeOK, ListNamesPath, ImagesKnown, ListMounted, NEW v \in Vmcs, MountVmc(v)
    PROVE  ImagesKnown'
<1>1. CASE SetVmc(v, Now, NoIx, NoIx)
  BY <1>1, SetVmcImages
<1>2. CASE ~SetVmc(v, Now, NoIx, NoIx)
  <2> DEFINE m == [Now EXCEPT !.pin = PinsWithout(v)]
  <2>1. path \in Parties
    BY <1>2 DEF MountVmc, TypeOK, PartyOrNone, ListNamesPath
  <2>2. \E u \in Slots : mountedParty[u] = path
    BY <1>2 DEF MountVmc, ListMounted
  <2>3. StateOK(m) /\ m.tab = mountedParty
    BY PinsWithoutType DEF StateOK, Now, TypeOK
  <2>4. PICK can \in BOOLEAN, held \in Held(OtherImages(v) \cup ({FileWithout(v)} \ {NoIx})) :
           LET r == MountParty(m, path, can, held)
           IN  SetVmc(v, r.m, r.ret, IF r.ret = NoIx THEN 0 ELSE r.ret)
    BY <1>2 DEF MountVmc
  <2> HIDE DEF m
  <2>5. MountParty(m, path, can, held).ret # NoIx
    BY <2>1, <2>2, <2>3, MountPartyGives
  <2> QED BY <2>4, <2>5, SetVmcImages
<1> QED BY <1>1, <1>2

LEMMA ImagesStep ==
    ASSUME TypeOK, ListNamesPath, PinsAgree, ImagesKnown, VmcsInBrowser, ListMounted,
           [Next]_vars
    PROVE  ImagesGood
<1>1. ASSUME UNCHANGED pins, screen' # "browser" => screen # "browser" PROVE ImagesGood
  BY <1>1 DEF ImagesGood, ImagesKnown, VmcsInBrowser, pins
<1>2. ASSUME ClearVmcs PROVE ImagesGood
  BY <1>2 DEF ImagesGood, ImagesKnown, VmcsInBrowser, ClearVmcs, PinsAgree, TypeOK
<1>3. ASSUME NEW v \in Vmcs, MountVmc(v) PROVE ImagesGood
  <2>1. screen' = "browser"
    BY <1>3 DEF MountVmc
  <2> QED BY <1>3, <2>1, MountVmcImages DEF ImagesGood, VmcsInBrowser
<1>4. CASE UNCHANGED vars
  BY <1>1, <1>4 DEF vars, ui
<1>5. CASE EnterBrowser \/ LeaveBrowser \/ HddManager
  BY <1>2, <1>5 DEF EnterBrowser, LeaveBrowser, HddManager
<1>6. CASE EnterViewer \/ LeaveViewer
  BY <1>1, <1>6 DEF EnterViewer, LeaveViewer, Goto
<1>7. CASE \E p \in Parties : \/ ReadHDD(p) \/ CheckELFheader(p) \/ FixPathUse(p)
                              \/ EditorUse(p) \/ LoadSkin(p) \/ LoadExternalFile(p)
  <2>1. UNCHANGED <<pins, screen>>
    BY <1>7 DEF ReadHDD, CheckELFheader, FixPathUse, EditorUse, LoadSkin, UseAndUnmount,
                LoadExternalFile, ui
  <2> QED BY <1>1, <2>1
<1>8. CASE ShowOther \/ UseListed \/ GetGameTitle \/ CopyOut \/ CopyWrite
  <2>1. UNCHANGED <<pins, screen>>
    BY <1>8 DEF ShowOther, UseListed, GetGameTitle, CopyOut, CopyWrite, ui
  <2> QED BY <1>1, <2>1
<1>9. CASE (\E q \in PartyOrNone : CopyIn(q)) \/ (\E cut \in BOOLEAN : CopyEnd(cut))
  <2>1. UNCHANGED <<pins, screen>>
    BY <1>9 DEF CopyIn, CopyEnd
  <2> QED BY <1>1, <2>1
<1>10. CASE \/ \E u \in FtpReach : FtpUnmount(u)
            \/ \E u \in FtpReach, p \in Parties : FtpMount(u, p)
  <2>1. UNCHANGED <<pins, screen>>
    BY <1>10 DEF FtpUnmount, FtpMount, ui
  <2> QED BY <1>1, <2>1
<1>11. CASE LoadNetModules
  <2>1. UNCHANGED <<pins, screen>>
    BY <1>11 DEF LoadNetModules, LoadSkin, UseAndUnmount, ui
  <2> QED BY <1>1, <2>1
<1>12. CASE Operations
  BY <1>12, <1>3, <1>5, <1>6, <1>7, <1>8, <1>9, <1>10, Zenon DEF Operations
<1> QED BY <1>4, <1>11, <1>12 DEF Next

-----------------------------------------------------------------------------
\* Between its two mounts copy() has the first unit, used last, and no more
LEMMA CopyInStep ==
    ASSUME TypeOK, CopyKnown, NEW q \in PartyOrNone, CopyIn(q)
    PROVE  CopyKnown'
<1>1. copying.stage # "idle" => q = copying.in
  <2>1. copying = NoCopy \/ q = copying.in
    BY Zenon DEF CopyIn
  <2> QED BY <2>1 DEF NoCopy
<1>2. CASE q = None
  <2>1. copying.pfsin = NoIx
    BY <1>1, <1>2 DEF CopyKnown, NoCopy, CopyIn
  <2> QED BY <1>2, <2>1 DEF CopyIn, CopyKnown, TypeOK, NoCopy
<1>3. CASE q # None
  <2>1. q \in Parties
    BY <1>3 DEF PartyOrNone
  <2>2. PICK r \in Outcomes(q) :
           /\ SetTable(r.m)
           /\ copying' = [copying EXCEPT !.stage = "mountOut", !.in = q, !.pfsin = r.ret,
                                         !.src = SourcePath]
    BY <1>3 DEF CopyIn
  <2>3. r.ret # NoIx => r.m.tab[r.ret] = q /\ r.m.latest = r.ret
    BY <2>1, OutcomesGive DEF Gives
  <2>4. screen' = "browser" /\ path' = path
    BY DEF CopyIn
  <2>5. /\ copying'.stage = "mountOut" /\ copying'.in = q /\ copying'.pfsin = r.ret
        /\ copying'.pfsout = copying.pfsout
    BY <2>2 DEF TypeOK
  <2>6. mountedParty' = r.m.tab /\ latestMount' = r.m.latest
    BY <2>2 DEF SetTable
  <2> QED BY <1>3, <2>3, <2>4, <2>5, <2>6 DEF CopyKnown
<1> QED BY <1>2, <1>3

\* Mounting the destination leaves the source's unit alone, because it was used last
LEMMA CopyOutStep ==
    ASSUME TypeOK, CopyKnown, CopyOut
    PROVE  CopyKnown'
<1>1. /\ screen' = screen /\ path' = path /\ copying'.stage = "work"
      /\ copying'.in = copying.in /\ copying'.pfsin = copying.pfsin
      /\ copying # NoCopy
  <2>1. copying.stage = "mountOut" /\ UNCHANGED <<screen, path>>
    BY DEF CopyOut
  <2>2. \/ copying' = [copying EXCEPT !.stage = "work"]
        \/ \E i : copying' = [copying EXCEPT !.stage = "work", !.pfsout = i]
    BY DEF CopyOut
  <2>3. copying # NoCopy
    BY <2>1 DEF NoCopy
  <2>4. /\ copying'.stage = "work" /\ copying'.in = copying.in
        /\ copying'.pfsin = copying.pfsin
    BY <2>2 DEF TypeOK
  <2> QED BY <2>1, <2>3, <2>4
<1>2. CASE path = None
  <2>1. copying'.pfsout = copying.pfsout /\ UNCHANGED table
    BY <1>2 DEF CopyOut, TypeOK
  <2> QED BY <1>1, <1>2, <2>1 DEF CopyKnown, CopyOut, table
<1>3. CASE path # None
  <2>1. path \in Parties
    BY <1>3 DEF TypeOK, PartyOrNone
  <2>2. PICK r \in Outcomes(path) :
           SetTable(r.m) /\ copying' = [copying EXCEPT !.stage = "work", !.pfsout = r.ret]
    BY <1>3 DEF CopyOut
  <2>3. /\ copying'.pfsout = r.ret
        /\ mountedParty' = r.m.tab /\ latestMount' = r.m.latest
    BY <2>2 DEF SetTable, TypeOK
  <2>4. /\ r.ret # NoIx => r.m.tab[r.ret] = path
        /\ latestMount \in Slots /\ mountedParty[latestMount] # None =>
              r.m.tab[latestMount] = mountedParty[latestMount]
    BY <2>1, OutcomesGive DEF Gives, Now
  <2>5. copying.pfsin # NoIx => /\ latestMount = copying.pfsin /\ latestMount \in Slots
                                /\ mountedParty[latestMount] = copying.in
                                /\ copying.in # None
    BY DEF CopyKnown, CopyOut, TypeOK
  <2> QED BY <1>1, <1>3, <2>3, <2>4, <2>5 DEF CopyKnown, CopyOut
<1> QED BY <1>2, <1>3

LEMMA CopyStep ==
    ASSUME TypeOK, CopyKnown, [Next]_vars
    PROVE  CopyKnown'
<1>1. ASSUME UNCHANGED <<copying, screen, path, mountedParty, latestMount>>
      PROVE  CopyKnown'
  BY <1>1 DEF CopyKnown
<1>2. ASSUME copying' = NoCopy PROVE CopyKnown'
  BY <1>2 DEF CopyKnown, NoCopy
<1>3. ASSUME UNCHANGED copying, copying = NoCopy PROVE CopyKnown'
  BY <1>2, <1>3
<1>4. screen # "browser" => copying = NoCopy
  BY DEF CopyKnown
<1>5. CASE UNCHANGED vars \/ CopyWrite
  BY <1>1, <1>5 DEF CopyWrite, vars, ui, table
<1>6. CASE EnterBrowser \/ LeaveBrowser \/ HddManager \/ EnterViewer \/ LeaveViewer
  <2>1. UNCHANGED copying /\ copying = NoCopy
    BY <1>4, <1>6 DEF EnterBrowser, LeaveBrowser, HddManager, EnterViewer, LeaveViewer, Goto, ui
  <2> QED BY <1>3, <2>1
<1>7. CASE \E p \in Parties : \/ ReadHDD(p) \/ CheckELFheader(p) \/ FixPathUse(p)
                              \/ EditorUse(p) \/ LoadSkin(p) \/ LoadExternalFile(p)
  <2>1. UNCHANGED copying /\ copying = NoCopy
    BY <1>4, <1>7 DEF ReadHDD, CheckELFheader, FixPathUse, EditorUse, LoadSkin,
                      UseAndUnmount, LoadExternalFile, Listed, ui
  <2> QED BY <1>3, <2>1
<1>8. CASE ShowOther \/ UseListed \/ GetGameTitle \/ \E v \in Vmcs : MountVmc(v)
  <2>1. UNCHANGED copying /\ copying = NoCopy
    BY <1>8 DEF ShowOther, UseListed, GetGameTitle, MountVmc, Listed, ui
  <2> QED BY <1>3, <2>1
<1>9. ASSUME NEW q \in PartyOrNone, CopyIn(q) PROVE CopyKnown'
  BY <1>9, CopyInStep
<1>10. CASE CopyOut
  BY <1>10, CopyOutStep
<1>11. ASSUME NEW cut \in BOOLEAN, CopyEnd(cut) PROVE CopyKnown'
  BY <1>2, <1>11 DEF CopyEnd
<1>12. CASE \/ \E u \in FtpReach : FtpUnmount(u)
            \/ \E u \in FtpReach, p \in Parties : FtpMount(u, p)
  BY <1>1, <1>12 DEF FtpUnmount, FtpMount, ui
<1>13. CASE LoadNetModules
  <2>1. UNCHANGED copying /\ copying = NoCopy
    BY <1>4, <1>13 DEF LoadNetModules, LoadSkin, UseAndUnmount, ui
  <2> QED BY <1>3, <2>1
<1>14. CASE Operations
  BY <1>14, <1>6, <1>5, <1>7, <1>8, <1>9, <1>10, <1>11, <1>12, Zenon DEF Operations
<1> QED BY <1>5, <1>13, <1>14 DEF Next
-----------------------------------------------------------------------------
\* Mounting a partition that is in the table changes no entry, and what else the
\* browser does leaves the list or the browser
LEMMA ListStep ==
    ASSUME TypeOK, ListNamesPath, CopyKnown, ListMounted, [Next]_vars
    PROVE  ListMounted'
<1>1. ASSUME UNCHANGED <<copying, screen, path, listing, mountedParty>> PROVE ListMounted'
  BY <1>1 DEF ListMounted
<1>2. ASSUME screen' # "browser" \/ copying' # NoCopy \/ listing' # "ok"
      PROVE  ListMounted'
  BY <1>2 DEF ListMounted
<1>3. ASSUME Listed, NEW r \in Outcomes(path), SetTable(r.m), UNCHANGED ui
      PROVE  ListMounted'
  <2>1. path \in Parties
    BY <1>3 DEF Listed, ListNamesPath, TypeOK, PartyOrNone
  <2>2. mountedParty' = mountedParty
    BY <1>3, <2>1, OutcomesGive DEF Listed, ListMounted, SetTable
  <2> QED BY <1>1, <1>3, <2>2 DEF ui
<1>4. CASE UNCHANGED vars
  BY <1>1, <1>4 DEF vars, ui, table
<1>5. CASE EnterBrowser \/ LeaveBrowser \/ EnterViewer \/ LeaveViewer \/ ShowOther
  BY <1>2, <1>5 DEF EnterBrowser, LeaveBrowser, EnterViewer, LeaveViewer, ShowOther, Goto
<1>6. CASE HddManager \/ LoadNetModules
  <2>1. screen' # "browser"
    BY <1>6 DEF HddManager, LoadNetModules, LoadSkin, UseAndUnmount, ui
  <2> QED BY <1>2, <2>1
<1>7. ASSUME NEW p \in Parties, ReadHDD(p) PROVE ListMounted'
  <2>1. PICK r \in Outcomes(p) :
           SetTable(r.m) /\ listing' = IF r.ret = NoIx THEN "empty" ELSE "ok"
    BY <1>7 DEF ReadHDD
  <2>2. r.ret # NoIx => r.ret \in Slots /\ r.m.tab[r.ret] = p
    BY OutcomesOK, OutcomesGive DEF Gives
  <2>3. mountedParty' = r.m.tab /\ path' = p
    BY <1>7, <2>1 DEF SetTable, ReadHDD
  <2> QED BY <2>1, <2>2, <2>3 DEF ListMounted
<1>8. CASE UseListed \/ GetGameTitle
  <2>1. PICK r \in Outcomes(path) : SetTable(r.m)
    BY <1>8 DEF UseListed, GetGameTitle
  <2> QED BY <1>3, <1>8, <2>1 DEF UseListed, GetGameTitle
<1>9. ASSUME NEW p \in Parties, CheckELFheader(p) PROVE ListMounted'
  <2>1. CASE screen = "main"
    BY <1>2, <1>9, <2>1 DEF CheckELFheader, ui
  <2>2. CASE screen # "main"
    <3>1. Listed /\ p = path /\ UNCHANGED ui
      BY <1>9, <2>2 DEF CheckELFheader
    <3>2. PICK r \in Outcomes(p) : SetTable(r.m)
      BY <1>9 DEF CheckELFheader
    <3> QED BY <1>3, <3>1, <3>2
  <2> QED BY <2>1, <2>2
<1>10. ASSUME NEW p \in Parties, \/ FixPathUse(p) \/ EditorUse(p)
                                 \/ LoadSkin(p) \/ LoadExternalFile(p)
       PROVE  ListMounted'
  <2>1. screen' # "browser"
    BY <1>10 DEF FixPathUse, EditorUse, LoadSkin, UseAndUnmount, LoadExternalFile, ui
  <2> QED BY <1>2, <2>1
<1>11. ASSUME NEW v \in Vmcs, MountVmc(v) PROVE ListMounted'
  <2>1. CASE listing' = "empty"
    BY <1>2, <2>1
  <2>2. CASE listing' # "empty"
    <3>1. UNCHANGED <<path, listing, screen, copying>>
      BY <1>11, <2>2 DEF MountVmc, SetVmc
    <3>2. CASE UNCHANGED table
      BY <1>1, <3>1, <3>2 DEF table
    <3>3. CASE ~UNCHANGED table
      <4> DEFINE m == [Now EXCEPT !.pin = PinsWithout(v)]
      <4>1. PICK can \in BOOLEAN, held \in Held(OtherImages(v) \cup ({FileWithout(v)} \ {NoIx})) :
               SetTable(MountParty(m, path, can, held).m)
        BY <1>11, <3>3 DEF MountVmc
      <4>2. path \in Parties /\ \E u \in Slots : mountedParty[u] = path
        BY <1>11, <3>3 DEF MountVmc, TypeOK, PartyOrNone, ListNamesPath, ListMounted
      <4>3. StateOK(m) /\ m.tab = mountedParty
        BY PinsWithoutType DEF StateOK, Now, TypeOK
      <4> HIDE DEF m
      <4>4. MountParty(m, path, can, held).m.tab = mountedParty
        BY <4>2, <4>3, MountPartyGives
      <4> QED BY <1>1, <3>1, <4>1, <4>4 DEF SetTable
    <3> QED BY <3>2, <3>3
  <2> QED BY <2>1, <2>2
<1>12. ASSUME NEW q \in PartyOrNone, CopyIn(q) PROVE ListMounted'
  <2>1. copying' # NoCopy
    <3>1. \/ copying' = [copying EXCEPT !.stage = "mountOut", !.in = q]
          \/ \E i : copying' = [copying EXCEPT !.stage = "mountOut", !.in = q, !.pfsin = i,
                                                !.src = SourcePath]
      BY <1>12 DEF CopyIn
    <3>2. copying'.stage = "mountOut"
      BY <3>1 DEF TypeOK
    <3> QED BY <3>2 DEF NoCopy
  <2> QED BY <1>2, <2>1
<1>13. CASE CopyOut \/ CopyWrite
  <2>1. copying'.stage = "work"
    <3>1. \/ copying' = [copying EXCEPT !.stage = "work"]
          \/ \E i : copying' = [copying EXCEPT !.stage = "work", !.pfsout = i]
          \/ copying' = copying /\ copying.stage = "work"
      BY <1>13 DEF CopyOut, CopyWrite, ui
    <3> QED BY <3>1 DEF TypeOK
  <2>2. copying' # NoCopy
    BY <2>1 DEF NoCopy
  <2> QED BY <1>2, <2>2
<1>14. ASSUME NEW cut \in BOOLEAN, CopyEnd(cut) PROVE ListMounted'
  <2>1. listing' # "ok"
    BY <1>14 DEF CopyEnd
  <2> QED BY <1>2, <2>1
<1>15. CASE \/ \E u \in FtpReach : FtpUnmount(u)
            \/ \E u \in FtpReach, p \in Parties : FtpMount(u, p)
  BY <1>1, <1>15 DEF FtpUnmount, FtpMount, ui
<1>16. CASE Operations
  BY <1>16, <1>5, <1>6, <1>7, <1>8, <1>9, <1>10, <1>11, <1>12, <1>13, <1>14, <1>15,
     Zenon DEF Operations
<1> QED BY <1>4, <1>6, <1>16 DEF Next

-----------------------------------------------------------------------------
\* Until the FTP server is loaded a unit that mountParty returned, or that copy()
\* holds, is used for its own partition
LEMMA UseStep ==
    ASSUME IInv, CopyKnown, IndexedUseRight, [Next]_vars
    PROVE  IndexedUseRight'
<1>0. TypeOK /\ ListNamesPath /\ (~ftpRunning => Faithful(Now))
  BY TableNames DEF IInv
<1>1. ~ftpRunning' => ~ftpRunning
  BY DEF Next, LoadNetModules, vars
<1>2. ASSUME lastUse' = lastUse PROVE IndexedUseRight'
  BY <1>1, <1>2 DEF IndexedUseRight
<1>3. ASSUME lastUse'.by \notin {"index", "copy"} PROVE IndexedUseRight'
  BY <1>3 DEF IndexedUseRight
<1>4. ASSUME NoUse PROVE IndexedUseRight'
  BY <1>3, <1>4 DEF NoUse
<1>5. ASSUME NEW m, NEW u, NEW p, Use("title", m, u, p) \/ Use("unchecked", m, u, p)
                                  \/ Use("external", m, u, p)
      PROVE  IndexedUseRight'
  BY <1>3, <1>5 DEF Use
<1>6. ASSUME NEW p \in Parties, NEW r \in Outcomes(p), Use("index", r.m, r.ret, p)
      PROVE  IndexedUseRight'
  <2>1. CASE ftpRunning
    BY <1>1, <2>1 DEF IndexedUseRight
  <2>2. CASE ~ftpRunning
    <3>1. Faithful(r.m)
      BY <1>0, <2>2, OutcomesOK
    <3>2. r.ret \in Slots => r.m.tab[r.ret] = p
      BY <1>0, SlotsAre, OutcomesGive DEF Gives
    <3>3. ~Wrong(r.m, r.ret, p)
      BY <3>1, <3>2, MountAssumption DEF Wrong, Faithful
    <3> QED BY <1>6, <3>3 DEF Use, IndexedUseRight
  <2> QED BY <2>1, <2>2
<1>7. CASE UNCHANGED vars
  BY <1>2, <1>7 DEF vars
<1>8. CASE \/ EnterBrowser \/ LeaveBrowser \/ HddManager \/ EnterViewer \/ LeaveViewer
           \/ ShowOther \/ CopyOut \/ \E v \in Vmcs : MountVmc(v)
           \/ \E q \in PartyOrNone : CopyIn(q)
           \/ \E u \in FtpReach : FtpUnmount(u)
           \/ \E u \in FtpReach, p \in Parties : FtpMount(u, p)
  <2>1. NoUse
    BY <1>8 DEF EnterBrowser, LeaveBrowser, HddManager, EnterViewer, LeaveViewer, Goto,
                ShowOther, CopyOut, MountVmc, CopyIn, FtpUnmount, FtpMount
  <2> QED BY <1>4, <2>1
<1>9. ASSUME NEW p \in Parties, ReadHDD(p) \/ CheckELFheader(p) \/ FixPathUse(p)
      PROVE  IndexedUseRight'
  BY <1>6, <1>9 DEF ReadHDD, CheckELFheader, FixPathUse
<1>10. CASE UseListed
  <2>1. path \in Parties
    BY <1>0, <1>10 DEF UseListed, Listed, ListNamesPath, TypeOK, PartyOrNone
  <2> QED BY <1>6, <1>10, <2>1 DEF UseListed
<1>11. CASE GetGameTitle
  BY <1>5, <1>11 DEF GetGameTitle
<1>12. ASSUME NEW p \in Parties, EditorUse(p) \/ LoadSkin(p) \/ LoadExternalFile(p)
       PROVE  IndexedUseRight'
  BY <1>5, <1>12 DEF EditorUse, LoadSkin, UseAndUnmount, LoadExternalFile
<1>13. CASE CopyWrite
  <2>1. CASE ftpRunning
    BY <1>1, <2>1 DEF IndexedUseRight
  <2>2. CASE ~ftpRunning
    <3>1. Faithful(Now)
      BY <1>0, <2>2
    <3>2. copying.pfsout \in Slots => mountedParty[copying.pfsout] = path /\ path # None
      BY <1>13, SlotsAre DEF CopyWrite, CopyKnown
    <3>3. ~Wrong(Now, copying.pfsout, path)
      BY <3>1, <3>2 DEF Wrong, Faithful, Now
    <3> QED BY <1>13, <3>3 DEF CopyWrite, Use, IndexedUseRight
  <2> QED BY <2>1, <2>2
<1>14. ASSUME NEW cut \in BOOLEAN, CopyEnd(cut) PROVE IndexedUseRight'
  <2>1. copying.in \in PartyOrNone
    BY <1>0 DEF TypeOK
  <2> QED BY <1>4, <1>6, <1>14, <2>1 DEF CopyEnd, PartyOrNone
<1>15. CASE LoadNetModules
  BY <1>4, <1>12, <1>15 DEF LoadNetModules
<1>16. CASE Operations
  BY <1>16, <1>8, <1>9, <1>10, <1>11, <1>12, <1>13, <1>14, Zenon DEF Operations
<1> QED BY <1>7, <1>15, <1>16 DEF Next

-----------------------------------------------------------------------------
LEMMA InitUseInv == Init => UseInv
<1> SUFFICES ASSUME Init PROVE UseInv
  OBVIOUS
<1> QED BY SlotsAre DEF Init, UseInv, ImagesKnown, VmcsInBrowser, CopyKnown, ListMounted,
                        IndexedUseRight, NoCopy

LEMMA NextUseInv == IInv /\ UseInv /\ [Next]_vars => UseInv'
<1> SUFFICES ASSUME IInv, UseInv, [Next]_vars PROVE UseInv'
  OBVIOUS
<1>1. ImagesKnown' /\ VmcsInBrowser'
  BY ImagesStep DEF IInv, UseInv, ImagesGood
<1>2. CopyKnown'
  BY CopyStep DEF IInv, UseInv
<1>3. ListMounted'
  BY ListStep DEF IInv, UseInv
<1>4. IndexedUseRight'
  BY UseStep DEF UseInv
<1> QED BY <1>1, <1>2, <1>3, <1>4 DEF UseInv

LEMMA UseInvAlways == Spec => [](IInv /\ UseInv)
BY IInvAlways, InitUseInv, NextUseInv, PTL DEF Spec

\* uLE never tries to unmount a unit under the image of a mounted VMC from within
\* the browser: mountParty spares pinned units, and every open image is on one.
THEOREM ImagesAlwaysPinned == Spec => []ImagesPinned
<1>1. IInv /\ UseInv => ImagesPinned
  BY DEF IInv, UseInv, ImagesKnown, PinsAgree, ImagesPinned
<1> QED BY <1>1, UseInvAlways, PTL

\* Leaving the browser, by any of its ways, leaves no VMC mounted and no image open.
THEOREM VmcsAlwaysEnd == Spec => []VmcsEndWithBrowser
<1>1. IInv /\ UseInv => VmcsEndWithBrowser
  BY DEF IInv, UseInv, ImagesKnown, VmcsInBrowser, PinsAgree, VmcsEndWithBrowser
<1> QED BY <1>1, UseInvAlways, PTL

\* copy() never evicts its own units, however deep it calls itself.
THEOREM CopyUnitsAlwaysHold == Spec => []CopyUnitsHold
<1>1. IInv /\ UseInv => CopyUnitsHold
  BY DEF UseInv, CopyKnown, CopyUnitsHold
<1> QED BY <1>1, UseInvAlways, PTL

\* Until the FTP server is loaded, no routine that uses the unit mountParty gave it
\* touches another partition.
THEOREM UsesAlwaysRight == Spec => []IndexedUseRight
<1>1. IInv /\ UseInv => IndexedUseRight
  BY DEF UseInv
<1> QED BY <1>1, UseInvAlways, PTL
=============================================================================
