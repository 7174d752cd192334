------------------------------ MODULE ModLoad ------------------------------
(***************************************************************************)
(* ioplib_util.c: the hooks on MODLOAD that pretend to load the modules    *)
(* whose job cdvdman does itself.  The verdict "this module is faked" goes *)
(* from checkFakemod to isFakemod through one global, fakemod_flag, that   *)
(* one call sets and a later one, of any thread and for any module, takes. *)
(* Every hook may be called at any time, with any id its clients hold.     *)
(* MODLOAD itself is external: it does what it is asked, or fails.         *)
(***************************************************************************)
EXTENDS Naturals

CONSTANTS
  Callers,      \* threads that load modules
  Modules,
  FakeList,     \* the modules on lm_modulefake_list / lmb_modulefake_list
  NoModule, NoCaller

ASSUME ModuleAssumption == FakeList \subseteq Modules /\ NoModule \notin Modules

VARIABLES
  fakemod_flag,
  mc, cur,          \* where each call is, and the module it is about
  held,             \* the ids the hooks have returned, each with its module
  answer,           \* the last answer to a load or a start
  loaded, started,  \* MODLOAD: the modules really loaded, really started
  owed,             \* history: listed modules said to be loaded, not started since
  robbed,           \* history: those of them whose flag another start has taken
  outrun            \* history: calls that lost the flag between lookup and test

mvars == <<fakemod_flag, mc, cur, held, answer, loaded, started, owed, robbed, outrun>>

\* An id a module can be started, stopped and unloaded with.
Ids == {"FAKEMOD_ID", "id"}

MInit ==
  /\ fakemod_flag = 0
  /\ mc = [c \in Callers |-> "idle"] /\ cur = [c \in Callers |-> NoModule]
  /\ held = {} /\ answer = [by |-> NoCaller, mod |-> NoModule, id |-> "none"]
  /\ loaded = {} /\ started = {}
  /\ owed = {} /\ robbed = {} /\ outrun = {}

At(c, p) == mc[c] = p
Goto(c, p, m) == mc' = [mc EXCEPT ![c] = p] /\ cur' = [cur EXCEPT ![c] = m]

\* A hook returns i for module m: its client holds that id from now on.
Answer(c, m, i) ==
  /\ answer' = [by |-> c, mod |-> m, id |-> i]
  /\ held' = IF i \in Ids THEN held \cup {<<m, i>>} ELSE held

\* checkFakemod(m): sets the flag if m is on the list.
checkFakemod(m) == fakemod_flag' = IF m \in FakeList THEN 1 ELSE fakemod_flag

\* Mutant: the lookup does not set the flag.
LookupOnly(c, m) ==
  /\ At(c, "idle")
  /\ Goto(c, "checked", m)
  /\ outrun' = outrun \ {c}
  /\ UNCHANGED <<fakemod_flag, held, answer, loaded, started, owed, robbed>>

\* Hook_LoadStartModule looks the module up; what checkFakemod returns is unused.
Hook_LoadStartModule(c, m) ==
  /\ At(c, "idle")
  /\ checkFakemod(m)
  /\ Goto(c, "checked", m)
  /\ outrun' = outrun \ {c}
  /\ UNCHANGED <<held, answer, loaded, started, owed, robbed>>

\* isFakemod finds the flag set, in a call about module m.
FindsFlag(c, m) ==
  /\ fakemod_flag = 1
  /\ Goto(c, "take", m)
  /\ UNCHANGED <<fakemod_flag, held, answer, loaded, started, owed, robbed, outrun>>

\* It does not: the original LoadStartModule loads and starts, or fails.
LoadStart(c) ==
  /\ At(c, "checked")
  /\ \/ FindsFlag(c, cur[c])
     \/ /\ fakemod_flag = 0
        /\ \/ /\ loaded' = loaded \cup {cur[c]} /\ started' = started \cup {cur[c]}
              /\ Answer(c, cur[c], "id")
           \/ Answer(c, cur[c], "error") /\ UNCHANGED <<loaded, started>>
        /\ owed' = owed \ {cur[c]} /\ robbed' = robbed \ {cur[c]}
        /\ Goto(c, "idle", NoModule)
        /\ UNCHANGED <<fakemod_flag, outrun>>

\* The calls that have just looked up a listed module, but for c's own.
LookedUp(c) == {d \in Callers \ {c} : mc[d] = "checked" /\ cur[d] \in FakeList}

\* Mutant: isFakemod leaves the flag set.
FlagNotTaken(c) ==
  /\ At(c, "take")
  /\ Answer(c, cur[c], "FAKEMOD_ID")
  /\ owed' = owed \ {cur[c]} /\ robbed' = owed'
  /\ outrun' = outrun \cup LookedUp(c)
  /\ Goto(c, "idle", NoModule)
  /\ UNCHANGED <<fakemod_flag, loaded, started>>

\* isFakemod clears the flag, whoever it was set for, and the hook returns.
TakeFlag(c) ==
  /\ At(c, "take")
  /\ fakemod_flag' = 0
  /\ Answer(c, cur[c], "FAKEMOD_ID")
  /\ owed' = owed \ {cur[c]} /\ robbed' = owed'
  /\ outrun' = outrun \cup LookedUp(c)
  /\ Goto(c, "idle", NoModule)
  /\ UNCHANGED <<loaded, started>>

\* Mutant: a listed module is said to be loaded, but the flag is not set.
BufferNotMarked(c, m) ==
  /\ At(c, "idle")
  /\ IF m \in FakeList
       THEN /\ Answer(c, m, "FAKEMOD_ID")
            /\ owed' = owed \cup {m} /\ robbed' = robbed \ {m} /\ UNCHANGED loaded
       ELSE /\ \/ Answer(c, m, "id") /\ loaded' = loaded \cup {m}
               \/ Answer(c, m, "error") /\ UNCHANGED loaded
            /\ UNCHANGED <<owed, robbed>>
  /\ UNCHANGED <<fakemod_flag, mc, cur, started, outrun>>

\* Hook_LoadModuleBuffer: for a listed module the flag stays set, for the
\* Hook_StartModule to come.
Hook_LoadModuleBuffer(c, m) ==
  /\ At(c, "idle")
  /\ checkFakemod(m)
  /\ IF m \in FakeList
       THEN /\ Answer(c, m, "FAKEMOD_ID")
            /\ owed' = owed \cup {m} /\ robbed' = robbed \ {m} /\ UNCHANGED loaded
       ELSE /\ \/ Answer(c, m, "id") /\ loaded' = loaded \cup {m}
               \/ Answer(c, m, "error") /\ UNCHANGED loaded
            /\ UNCHANGED <<owed, robbed>>
  /\ UNCHANGED <<mc, cur, started, outrun>>

\* Hook_StartModule: isFakemod, whatever the id is.  The original StartModule
\* starts a module it has loaded, or fails; FAKEMOD_ID it does not know.
Hook_StartModule(c, m, i) ==
  /\ At(c, "idle") /\ <<m, i>> \in held
  /\ \/ FindsFlag(c, m)
     \/ /\ fakemod_flag = 0
        /\ \/ /\ i = "id" /\ m \in loaded
              /\ Answer(c, m, "id") /\ started' = started \cup {m}
           \/ Answer(c, m, "error") /\ UNCHANGED started
        /\ owed' = owed \ {m} /\ robbed' = robbed \ {m}
        /\ UNCHANGED <<fakemod_flag, mc, cur, loaded, outrun>>

\* Hook_StopModule: FAKEMOD_ID never reaches MODLOAD.
Hook_StopModule(m, i) ==
  /\ <<m, i>> \in held /\ i = "id"
  /\ started' = started \ {m}
  /\ UNCHANGED <<fakemod_flag, mc, cur, held, answer, loaded, owed, robbed, outrun>>

\* Hook_UnloadModule: nor does it here; MODLOAD unloads what does not run.
Hook_UnloadModule(m, i) ==
  /\ <<m, i>> \in held /\ i = "id" /\ m \notin started
  /\ loaded' = loaded \ {m}
  /\ UNCHANGED <<fakemod_flag, mc, cur, held, answer, started, owed, robbed, outrun>>

MNext ==
  \/ \E c \in Callers :
       \/ \E m \in Modules : Hook_LoadStartModule(c, m) \/ Hook_LoadModuleBuffer(c, m)
       \/ \E h \in held : Hook_StartModule(c, h[1], h[2])
       \/ LoadStart(c) \/ TakeFlag(c)
  \/ \E h \in held : Hook_StopModule(h[1], h[2]) \/ Hook_UnloadModule(h[1], h[2])

MSpec == MInit /\ [][MNext]_mvars

\* A hook takes the flag for a module that is not on the list only while a
\* listed module waits for its start after Hook_LoadModuleBuffer, or another
\* call is in the middle of a listed module: a flag never outlives the load it
\* was set for, so nothing else is faked once all listed modules are started.
OnlyListedFaked ==
  [][\A c \in Callers :
       mc[c] # "take" /\ mc'[c] = "take" /\ cur'[c] \notin FakeList
         => owed # {} \/ \E d \in Callers : cur[d] \in FakeList]_mvars

\* A module on the list reaches MODLOAD, where it would compete with cdvdman
\* for the hardware, only through a call that another thread's start has
\* robbed of the flag between its lookup and its test (lines 139 and 141).
ListedNeverRuns ==
  [][\A m \in FakeList \cap ((loaded' \cup started') \ (loaded \cup started)) :
       \E c \in outrun : cur[c] = m]_mvars

\* A load or a start of a listed module is answered with FAKEMOD_ID, so that it
\* looks done to the client, unless another start took its flag: between the
\* lookup and the test of one call, or between the Hook_LoadModuleBuffer and
\* the Hook_StartModule of the module.
ListedLooksStarted ==
  [][answer' # answer /\ answer'.mod \in FakeList /\ answer'.id # "FAKEMOD_ID"
       => IF mc[answer'.by] = "checked"
            THEN answer'.by \in outrun
            ELSE answer'.mod \notin owed \ robbed]_mvars
=============================================================================
