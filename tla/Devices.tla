------------------------------ MODULE Devices ------------------------------
(***************************************************************************)
(* cdvdman is built for one kind of device; each build links one           *)
(* device-*.c with the driver below it: device-usb.c (MassStor),           *)
(* device-hdd.c (Hdd), device-smb.c (Smb), device-bdm.c (Bdm).  Beside it  *)
(* every build has the mechacon (SCmd), which shares no state with the     *)
(* device: the choice below explores one hardware at a time.               *)
(***************************************************************************)
EXTENDS MassStor, Hdd, Smb, Bdm, SCmd

VARIABLE device

devvars == <<device, massvars, hddvars, smbvars, bdmvars, scmdvars>>

\* The choices of a build matter in that build only.
DevInit ==
  /\ device \in {"usb", "hdd", "smb", "bdm", "mechacon"}
  /\ MassInit
  /\ HddInit /\ (device # "hdd" => driver = "atad" /\ ~lba_48bit)
  /\ SmbInit /\ (device # "smb" => server = "user")
  /\ BdmInit
  /\ ScmdInit /\ (device # "mechacon" => boot = "free" /\ ~newer /\ mechacon.answer = <<>>)

InUsb(A) == device = "usb" /\ A /\ UNCHANGED <<device, hddvars, smbvars, bdmvars, scmdvars>>
InHdd(A) == device = "hdd" /\ A /\ UNCHANGED <<device, massvars, smbvars, bdmvars, scmdvars>>
InSmb(A) == device = "smb" /\ A /\ UNCHANGED <<device, massvars, hddvars, bdmvars, scmdvars>>
InBdm(A) == device = "bdm" /\ A /\ UNCHANGED <<device, massvars, hddvars, smbvars, scmdvars>>
InMechacon(A) == device = "mechacon" /\ A /\ UNCHANGED <<device, massvars, hddvars, smbvars, bdmvars>>

DevNext == InUsb(MassNext) \/ InHdd(HddNext) \/ InSmb(SmbNext) \/ InBdm(BdmNext) \/ InMechacon(ScmdNext)

\* The thread runs; the USB stack ends its transfers; the disk, its
\* interrupts and the alarm go on; the server answers; threads go on in an S-command and the
\* mechacon ends those it does not hang in.  No device need fail,
\* and none that hangs need recover.
DevFairness ==
  /\ WF_devvars(InUsb(ThreadStep)) /\ WF_devvars(InHdd(HddThread)) /\ WF_devvars(InSmb(SmbThread))
  /\ WF_devvars(InUsb(UsbStep))
  /\ WF_devvars(InHdd(HddDisk)) /\ WF_devvars(InHdd(HddIntr)) /\ WF_devvars(InHdd(HddAlarm))
  /\ WF_devvars(InSmb(ServerAnswers))
  /\ WF_devvars(InMechacon(MechaconEnds)) /\ \A t \in ScmdThreads : WF_devvars(InMechacon(InScmd(t)))
DevSpec == DevInit /\ [][DevNext]_devvars /\ DevFairness

\* Every call of DeviceReadSectors returns, after faults too: on USB each
\* command's end is signalled to the semaphore its caller waits for; on a
\* hard disk the interrupt or the alarm ends every wait; on a network every
\* cell waited for comes.  HddStuck and SmbStuck are the exceptions.
ReadsReturn ==
  UsbInCall \/ HddInCall \/ SmbInCall ~>
    \/ (device = "usb" => at = "idle") /\ ~HddInCall /\ ~SmbInCall
    \/ HddStuck \/ SmbStuck

\* Reads and S-commands return whatever the hardware does, but for the states
\* from which the code has no way out.
DeviceReturns == ReadsReturn /\ CommandsReturn
=============================================================================
