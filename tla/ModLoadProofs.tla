---------------------------- MODULE ModLoadProofs ----------------------------
(***************************************************************************)
(* What fakemod_flag, one for all calls, does guarantee: for any number of *)
(* threads, any modules and lists, and the hooks called in any order.      *)
(***************************************************************************)
EXTENDS ModLoad, TLAPS

MTypes ==
  /\ fakemod_flag \in {0, 1}
  /\ mc \in [Callers -> {"idle", "checked", "take"}]
  /\ cur \in [Callers -> Modules \cup {NoModule}]
  /\ held \subseteq Modules \X Ids
  /\ owed \subseteq FakeList

\* A call is about a module until it is over.
IdleHasNone == \A c \in Callers : mc[c] = "idle" <=> cur[c] = NoModule

\* The flag is set for a module that waits for its start, or for one a call
\* is in the middle of.
FlagHasCause == fakemod_flag = 1 => owed # {} \/ \E d \in Callers : cur[d] \in FakeList

\* It is set as long as a module waits whose flag nobody has taken, and ...
OwedHaveFlag == owed \subseteq robbed \/ fakemod_flag = 1

\* ... when a call that has looked up a listed module, and not been outrun,
\* comes to test it.
LookupHasFlag ==
  \A c \in Callers : mc[c] = "checked" /\ cur[c] \in FakeList => c \in outrun \/ fakemod_flag = 1

\* The inductive invariant.
FakeInv == MTypes /\ IdleHasNone /\ FlagHasCause /\ OwedHaveFlag /\ LookupHasFlag

\* No call is under way when the hooks are installed, and the flag is clear.
LEMMA FakeInit == MInit => FakeInv
BY ModuleAssumption
   DEF MInit, FakeInv, MTypes, IdleHasNone, FlagHasCause, OwedHaveFlag, LookupHasFlag

\* The ids the clients hold come from the hooks.
LEMMA HeldTyped ==
  ASSUME held \subseteq Modules \X Ids, NEW c, NEW m \in Modules, NEW i, Answer(c, m, i)
  PROVE  held' \subseteq Modules \X Ids
BY DEF Answer

\* Every hook, up to the point where the next one may come in, keeps it.
LEMMA FakeStep == FakeInv /\ [MNext]_mvars => FakeInv'
<1> SUFFICES ASSUME FakeInv, [MNext]_mvars PROVE FakeInv' OBVIOUS
<1> USE ModuleAssumption DEF FakeInv, MTypes
<1>h. ASSUME NEW h \in held PROVE h[1] \in Modules /\ h[2] \in Ids /\ h = <<h[1], h[2]>>
  BY <1>h
<1>f. ASSUME NEW c \in Callers, NEW m \in Modules, FindsFlag(c, m),
             At(c, "idle") \/ (At(c, "checked") /\ m = cur[c])
      PROVE  FakeInv'
  <2>1. MTypes' BY <1>f DEF FindsFlag, Goto
  <2>2. IdleHasNone' BY <1>f DEF FindsFlag, Goto, IdleHasNone
  <2>3. cur[c] \in FakeList => cur'[c] \in FakeList
    BY <1>f DEF FindsFlag, Goto, At, IdleHasNone
  <2>4. \A d \in Callers : cur[d] \in FakeList => cur'[d] \in FakeList
    BY <1>f, <2>3 DEF FindsFlag, Goto
  <2>5. FlagHasCause' BY <1>f, <2>4 DEF FindsFlag, FlagHasCause
  <2>6. OwedHaveFlag' /\ LookupHasFlag' BY <1>f DEF FindsFlag, OwedHaveFlag, LookupHasFlag
  <2> QED BY <2>1, <2>2, <2>5, <2>6
<1>1. ASSUME NEW c \in Callers, NEW m \in Modules, Hook_LoadStartModule(c, m) PROVE FakeInv'
  <2> USE <1>1 DEF Hook_LoadStartModule, checkFakemod, Goto, At
  <2>1. MTypes' OBVIOUS
  <2>2. IdleHasNone' BY DEF IdleHasNone
  <2>3. FlagHasCause' BY DEF FlagHasCause, IdleHasNone
  <2>4. OwedHaveFlag' /\ LookupHasFlag' BY DEF OwedHaveFlag, LookupHasFlag
  <2> QED BY <2>1, <2>2, <2>3, <2>4
<1>2. ASSUME NEW c \in Callers, NEW m \in Modules, Hook_LoadModuleBuffer(c, m) PROVE FakeInv'
  <2>1. held' \subseteq Modules \X Ids BY <1>2, HeldTyped DEF Hook_LoadModuleBuffer
  <2>2. MTypes' BY <1>2, <2>1 DEF Hook_LoadModuleBuffer, checkFakemod
  <2>3. IdleHasNone' /\ FlagHasCause' /\ OwedHaveFlag' /\ LookupHasFlag'
    BY <1>2 DEF Hook_LoadModuleBuffer, checkFakemod, IdleHasNone, FlagHasCause, OwedHaveFlag,
                LookupHasFlag
  <2> QED BY <2>2, <2>3
<1>3. ASSUME NEW c \in Callers, LoadStart(c) PROVE FakeInv'
  <2>1. cur[c] \in Modules BY <1>3 DEF LoadStart, At, IdleHasNone
  <2>2. CASE FindsFlag(c, cur[c]) BY <1>3, <1>f, <2>1, <2>2 DEF LoadStart
  <2>3. CASE ~FindsFlag(c, cur[c])
    <3>1. held' \subseteq Modules \X Ids BY <1>3, <2>1, <2>3, HeldTyped DEF LoadStart
    <3> USE <1>3, <2>3 DEF LoadStart, Goto, At
    <3>2. MTypes' BY <3>1
    <3>3. IdleHasNone' BY DEF IdleHasNone
    <3>4. FlagHasCause' /\ OwedHaveFlag' /\ LookupHasFlag'
      BY DEF FlagHasCause, OwedHaveFlag, LookupHasFlag
    <3> QED BY <3>2, <3>3, <3>4
  <2> QED BY <2>2, <2>3
<1>4. ASSUME NEW c \in Callers, TakeFlag(c) PROVE FakeInv'
  <2>1. cur[c] \in Modules BY <1>4 DEF TakeFlag, At, IdleHasNone
  <2>2. held' \subseteq Modules \X Ids BY <1>4, <2>1, HeldTyped DEF TakeFlag
  <2> USE <1>4 DEF TakeFlag, Goto, At
  <2>3. MTypes' BY <2>2
  <2>4. IdleHasNone' BY DEF IdleHasNone
  <2>5. FlagHasCause' /\ OwedHaveFlag' BY DEF FlagHasCause, OwedHaveFlag
  <2>6. LookupHasFlag' BY DEF LookupHasFlag, LookedUp
  <2> QED BY <2>3, <2>4, <2>5, <2>6
<1>5. ASSUME NEW c \in Callers, NEW m \in Modules, NEW i \in Ids, Hook_StartModule(c, m, i)
      PROVE  FakeInv'
  <2>1. CASE FindsFlag(c, m) BY <1>5, <1>f, <2>1 DEF Hook_StartModule
  <2>2. CASE ~FindsFlag(c, m)
    <3>1. held' \subseteq Modules \X Ids BY <1>5, <2>2, HeldTyped DEF Hook_StartModule
    <3> USE <1>5, <2>2 DEF Hook_StartModule
    <3>2. MTypes' BY <3>1
    <3>3. IdleHasNone' /\ FlagHasCause' /\ OwedHaveFlag' /\ LookupHasFlag'
      BY DEF IdleHasNone, FlagHasCause, OwedHaveFlag, LookupHasFlag
    <3> QED BY <3>2, <3>3
  <2> QED BY <2>1, <2>2
<1>6. ASSUME NEW m, NEW i, Hook_StopModule(m, i) \/ Hook_UnloadModule(m, i) PROVE FakeInv'
  BY <1>6 DEF Hook_StopModule, Hook_UnloadModule, IdleHasNone, FlagHasCause, OwedHaveFlag,
              LookupHasFlag
<1>7. CASE UNCHANGED mvars
  BY <1>7 DEF mvars, IdleHasNone, FlagHasCause, OwedHaveFlag, LookupHasFlag
<1> QED BY <1>1, <1>2, <1>3, <1>4, <1>5, <1>6, <1>7, <1>h DEF MNext

\* A hook takes the flag for a module off the list only while a listed module
\* waits for its start, or another call is in the middle of one.
THEOREM FakedModulesListed == MSpec => OnlyListedFaked
<1> DEFINE Caused(c) ==
      mc[c] # "take" /\ mc'[c] = "take" /\ cur'[c] \notin FakeList
        => owed # {} \/ \E d \in Callers : cur[d] \in FakeList
<1>1. FakeInv /\ [MNext]_mvars => [\A c \in Callers : Caused(c)]_mvars
  <2> SUFFICES ASSUME FakeInv, MNext, NEW c \in Callers, mc[c] # "take", mc'[c] = "take"
               PROVE  fakemod_flag = 1
    BY DEF FakeInv, FlagHasCause
  <2> USE DEF FakeInv, MTypes, FindsFlag, Goto
  <2>1. ASSUME NEW d \in Callers, NEW m, Hook_LoadStartModule(d, m) \/ Hook_LoadModuleBuffer(d, m)
        PROVE  fakemod_flag = 1
    BY <2>1 DEF Hook_LoadStartModule, Hook_LoadModuleBuffer
  <2>2. ASSUME NEW d \in Callers, LoadStart(d) \/ TakeFlag(d) PROVE fakemod_flag = 1
    BY <2>2 DEF LoadStart, TakeFlag
  <2>3. ASSUME NEW d \in Callers, NEW m, NEW i, Hook_StartModule(d, m, i) PROVE fakemod_flag = 1
    BY <2>3 DEF Hook_StartModule
  <2>4. ASSUME NEW m, NEW i, Hook_StopModule(m, i) \/ Hook_UnloadModule(m, i)
        PROVE  fakemod_flag = 1
    BY <2>4 DEF Hook_StopModule, Hook_UnloadModule
  <2> QED BY <2>1, <2>2, <2>3, <2>4 DEF MNext
<1> QED BY <1>1, FakeInit, FakeStep, PTL DEF MSpec, OnlyListedFaked

\* A listed module reaches MODLOAD only through a call that was outrun.
LEMMA RunsByRace ==
  ASSUME FakeInv, MNext, NEW m \in FakeList, m \in (loaded' \cup started') \ (loaded \cup started)
  PROVE  \E c \in outrun : cur[c] = m
<1> USE DEF FakeInv, MTypes
<1>1. ASSUME NEW c \in Callers, NEW k \in Modules,
             Hook_LoadStartModule(c, k) \/ Hook_LoadModuleBuffer(c, k)
      PROVE  FALSE
  BY <1>1 DEF Hook_LoadStartModule, Hook_LoadModuleBuffer
<1>2. ASSUME NEW c \in Callers, LoadStart(c) PROVE c \in outrun /\ cur[c] = m
  BY <1>2 DEF LoadStart, FindsFlag, LookupHasFlag, At
<1>3. ASSUME NEW c \in Callers, TakeFlag(c) PROVE FALSE BY <1>3 DEF TakeFlag
<1>4. ASSUME NEW c \in Callers, NEW k, NEW i, Hook_StartModule(c, k, i) PROVE FALSE
  BY <1>4 DEF Hook_StartModule, FindsFlag
<1>5. ASSUME NEW k, NEW i, Hook_StopModule(k, i) \/ Hook_UnloadModule(k, i) PROVE FALSE
  BY <1>5 DEF Hook_StopModule, Hook_UnloadModule
<1> QED BY <1>1, <1>2, <1>3, <1>4, <1>5 DEF MNext

\* So no listed module is loaded or started unless two calls race.
THEOREM ListedModulesNeverRun == MSpec => ListedNeverRuns
<1> DEFINE Raced ==
      \A m \in FakeList \cap ((loaded' \cup started') \ (loaded \cup started)) :
        \E c \in outrun : cur[c] = m
<1>1. FakeInv /\ [MNext]_mvars => [Raced]_mvars BY RunsByRace
<1> QED BY <1>1, FakeInit, FakeStep, PTL DEF MSpec, ListedNeverRuns

\* And it always looks loaded and started to its clients, unless another
\* module's start has taken its flag.
THEOREM ListedModulesFaked == MSpec => ListedLooksStarted
<1> DEFINE LooksDone ==
      answer' # answer /\ answer'.mod \in FakeList /\ answer'.id # "FAKEMOD_ID"
        => IF mc[answer'.by] = "checked"
             THEN answer'.by \in outrun
             ELSE answer'.mod \notin owed \ robbed
<1>1. FakeInv /\ [MNext]_mvars => [LooksDone]_mvars
  <2> SUFFICES ASSUME FakeInv, MNext, answer' # answer, answer'.mod \in FakeList,
                      answer'.id # "FAKEMOD_ID"
               PROVE  IF mc[answer'.by] = "checked"
                        THEN answer'.by \in outrun
                        ELSE answer'.mod \notin owed \ robbed
    OBVIOUS
  <2> USE DEF FakeInv, MTypes, Answer, At
  <2>1. ASSUME NEW c \in Callers, NEW m \in Modules,
               Hook_LoadStartModule(c, m) \/ Hook_LoadModuleBuffer(c, m)
        PROVE  FALSE
    BY <2>1 DEF Hook_LoadStartModule, Hook_LoadModuleBuffer
  <2>2. ASSUME NEW c \in Callers, LoadStart(c)
        PROVE  mc[answer'.by] = "checked" /\ answer'.by \in outrun
    BY <2>2 DEF LoadStart, FindsFlag, LookupHasFlag
  <2>3. ASSUME NEW c \in Callers, TakeFlag(c) PROVE FALSE BY <2>3 DEF TakeFlag
  <2>4. ASSUME NEW c \in Callers, NEW m, NEW i, Hook_StartModule(c, m, i)
        PROVE  mc[answer'.by] = "idle" /\ owed \subseteq robbed
    BY <2>4 DEF Hook_StartModule, FindsFlag, OwedHaveFlag
  <2>5. ASSUME NEW m, NEW i, Hook_StopModule(m, i) \/ Hook_UnloadModule(m, i) PROVE FALSE
    BY <2>5 DEF Hook_StopModule, Hook_UnloadModule
  <2> QED BY <2>1, <2>2, <2>3, <2>4, <2>5 DEF MNext
<1> QED BY <1>1, FakeInit, FakeStep, PTL DEF MSpec, ListedLooksStarted

\* Without a second thread there is no race, and nothing listed ever runs.
OneCaller == \A c, d \in Callers : c = d
NoListedRuns == outrun = {} /\ (loaded \cup started) \cap FakeList = {}

\* With one thread, no module on the list is ever really loaded or started,
\* so none competes with cdvdman for the hardware, whatever the order of the hooks.
THEOREM OneThreadFakesAll ==
  ASSUME OneCaller
  PROVE  MSpec => []NoListedRuns
<1>1. MInit => NoListedRuns BY DEF MInit, NoListedRuns
<1>2. FakeInv /\ NoListedRuns /\ [MNext]_mvars => NoListedRuns'
  <2> SUFFICES ASSUME FakeInv, NoListedRuns, [MNext]_mvars PROVE NoListedRuns' OBVIOUS
  <2>1. CASE MNext
    <3>1. (loaded' \cup started') \cap FakeList = {}
      BY <2>1, RunsByRace DEF NoListedRuns
    <3>2. ASSUME NEW c \in Callers PROVE LookedUp(c) = {} BY <3>2 DEF LookedUp, OneCaller
    <3>3. outrun' = {}
      BY <2>1, <3>2 DEF MNext, NoListedRuns, Hook_LoadStartModule, Hook_LoadModuleBuffer, LoadStart,
                        FindsFlag, TakeFlag, Hook_StartModule, Hook_StopModule, Hook_UnloadModule
    <3> QED BY <3>1, <3>3 DEF NoListedRuns
  <2> QED BY <2>1 DEF mvars, NoListedRuns
<1> QED BY <1>1, <1>2, FakeInit, FakeStep, PTL DEF MSpec

=============================================================================
