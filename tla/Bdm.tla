-------------------------------- MODULE Bdm --------------------------------
(***************************************************************************)
(* device-bdm.c: the disc is a file, in one piece, on a block device that  *)
(* another module's thread connects and disconnects.  Data is counted in   *)
(* units of 512 bytes; unit u of block device d has the content <<d, u>>.  *)
(***************************************************************************)
EXTENDS Integers, FiniteSets

CONSTANTS
  BdUnits,         \* block devices, and the units of their sectors
  SectorUnits,     \* units of a CD sector (4)
  BdLba,           \* cdvdman_settings.LBAs[0]
  BdmReads,        \* calls of DeviceReadSectors: [lsn, n]
  BdmMem,          \* sectors of the caller's memory
  CountMod,        \* values of a u16
  Plugs            \* bound: connections

Bds == DOMAIN BdUnits
NULL == 0

ASSUME BdmAssumption ==
  /\ NULL \notin Bds /\ \A d \in Bds : BdUnits[d] \in Nat \ {0}
  /\ SectorUnits \in Nat \ {0} /\ BdLba \in Nat /\ CountMod \in Nat \ {0} /\ Plugs \in Nat
  /\ \A r \in BdmReads : r.lsn \in Nat /\ r.n \in 1 .. BdmMem

VARIABLES
  g_bd, g_bd_sectors_per_sector,
  plugged, adding,     \* devices present; the one bdm_connect_bd has stored and not sized
  bat, bcall, bsector, bcount, bmem,  \* the thread that reads
  wrong,               \* history: the call meets one of the limits below
  plugs

bdmvars == <<g_bd, g_bd_sectors_per_sector, plugged, adding, bat, bcall, bsector, bcount, bmem, wrong, plugs>>

Empty == <<NULL, 0>>
NoBdmCall == [lsn |-> 0, n |-> 0]

\* Before a device is sized, sectors of 512 bytes (one unit) are assumed.
BdmInit ==
  /\ g_bd = NULL /\ g_bd_sectors_per_sector = SectorUnits
  /\ plugged = {} /\ adding = NULL
  /\ bat = "init" /\ bcall = NoBdmCall /\ bsector = 0 /\ bcount = 0
  /\ bmem = [u \in 0 .. BdmMem * SectorUnits - 1 |-> Empty]
  /\ wrong = FALSE /\ plugs = 0

-----------------------------------------------------------------------------
\* Mutant: the device connected last is used.
ConnectLast ==
  \E d \in Bds \ plugged :
    /\ adding = NULL
    /\ plugs < Plugs /\ plugs' = plugs + 1
    /\ plugged' = plugged \cup {d}
    /\ g_bd' = d /\ adding' = d
    /\ UNCHANGED <<g_bd_sectors_per_sector, bat, bcall, bsector, bcount, bmem, wrong>>
\* bdm_connect_bd: the first device connected is used.  Its size follows in
\* a second store.
bdm_connect_bd ==
  \E d \in Bds \ plugged :
    /\ adding = NULL
    /\ plugs < Plugs /\ plugs' = plugs + 1
    /\ plugged' = plugged \cup {d}
    /\ IF g_bd = NULL THEN g_bd' = d /\ adding' = d ELSE UNCHANGED <<g_bd, adding>>
    /\ UNCHANGED <<g_bd_sectors_per_sector, bat, bcall, bsector, bcount, bmem, wrong>>
ConnectSize ==
  /\ adding # NULL /\ adding' = NULL
  /\ g_bd_sectors_per_sector' = SectorUnits \div BdUnits[adding]
  /\ UNCHANGED <<g_bd, plugged, bat, bcall, bsector, bcount, bmem, wrong, plugs>>
\* Limit: the device that is read goes, and the pointer is cleared.
bdm_disconnect_bd ==
  \E d \in plugged :
    /\ adding = NULL
    /\ plugged' = plugged \ {d}
    /\ g_bd' = IF g_bd = d THEN NULL ELSE g_bd
    /\ wrong' = (wrong \/ g_bd = d)
    /\ UNCHANGED <<g_bd_sectors_per_sector, adding, bat, bcall, bsector, bcount, bmem, plugs>>

\* DeviceFSInit waits for a device.
BdmFSInit ==
  /\ bat = "init" /\ g_bd # NULL
  /\ bat' = "idle"
  /\ UNCHANGED <<g_bd, g_bd_sectors_per_sector, plugged, adding, bcall, bsector, bcount, bmem, wrong, plugs>>

\* DeviceReadSectors: the address ...
\* Limits: no device; a device not sized yet; sectors of 4096 bytes; more
\* sectors than a u16 counts.
BdmReadSectors == \E r \in BdmReads :
  /\ bat = "idle" /\ bat' = "read"
  /\ bcall' = r
  /\ bsector' = BdLba + r.lsn * g_bd_sectors_per_sector
  /\ bcount' = (r.n * g_bd_sectors_per_sector) % CountMod
  /\ wrong' = (g_bd = NULL \/ adding # NULL \/ g_bd_sectors_per_sector = 0
                 \/ r.n * g_bd_sectors_per_sector >= CountMod)
  /\ UNCHANGED <<g_bd, g_bd_sectors_per_sector, plugged, adding, bmem, plugs>>
\* ... and the read, whose result is not looked at.  Without a device the
\* call goes through a null pointer.
BdmRead ==
  /\ bat = "read"
  /\ bat' = IF g_bd = NULL THEN "crashed" ELSE "return"
  /\ bmem' = IF g_bd = NULL THEN bmem
             ELSE [u \in DOMAIN bmem |-> IF u < bcount * BdUnits[g_bd]
                                           THEN <<g_bd, bsector * BdUnits[g_bd] + u>> ELSE bmem[u]]
  /\ UNCHANGED <<g_bd, g_bd_sectors_per_sector, plugged, adding, bcall, bsector, bcount, wrong, plugs>>
BdmReturned ==
  /\ bat = "return" /\ bat' = "idle"
  /\ bcall' = NoBdmCall /\ bsector' = 0 /\ bcount' = 0
  /\ bmem' = [u \in DOMAIN bmem |-> Empty]
  /\ UNCHANGED <<g_bd, g_bd_sectors_per_sector, plugged, adding, wrong, plugs>>

BdmThread == BdmFSInit \/ BdmRead \/ BdmReturned
BdmPlug == bdm_connect_bd \/ ConnectSize \/ bdm_disconnect_bd
BdmNext == BdmReadSectors \/ BdmThread \/ BdmPlug

-----------------------------------------------------------------------------
\* A call that meets none of the limits returns the sectors asked for, all
\* from one device, whatever is connected and disconnected beside it.
BdmDelivers ==
  bat = "return" /\ ~wrong =>
    \E d \in plugged : \A u \in DOMAIN bmem :
      bmem[u] = IF u < bcall.n * SectorUnits THEN <<d, BdLba * BdUnits[d] + bcall.lsn * SectorUnits + u>>
                ELSE Empty
=============================================================================
