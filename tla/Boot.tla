-------------------------------- MODULE Boot --------------------------------
(***************************************************************************)
(* The life of a device in the two drivers: the loader (aic_load_fw) takes *)
(* a chip that runs its boot ROM, downloads the firmware and starts it;    *)
(* the chip leaves the bus and comes back, and the WLAN driver             *)
(* (aic8800_fdrv) brings it up.  Unplugging, suspending and unloading the  *)
(* WLAN driver undo this at any moment.                                    *)
(*                                                                         *)
(* Three actors: the USB core, which probes and disconnects (one at a      *)
(* time); the completion handler of the receive URBs, which sees the       *)
(* errors of an unplugged device first; and the unloading of the WLAN      *)
(* driver.  The last two and the disconnect share aicwf_deinit_sem,        *)
(* aicwf_deinit_atomic and wait_disconnect_cb.                             *)
(*                                                                         *)
(* A probe is a script of Download preceded by what it takes.  Where the   *)
(* code crashes (a null call, a pointer used after it is freed) the model  *)
(* sets oops and stops.                                                    *)
(***************************************************************************)
EXTENDS Download, Integers, FiniteSets

CONSTANTS
  Configs,   \* the chips and module parameters, records c of Download, and
             \* slow: the device is on a full-speed port
  Chunk,     \* bytes in one block request (1024 in the loader, 512 in the WLAN driver)
  Urbs,      \* receive URBs in flight (AICWF_USB_RX_URBS)
  MaxPoll,   \* reads after which the power domain is given up
  Scenes     \* what may happen in a behaviour, and how often: the chip and, as
             \* bounds, faults (failed allocations, missing files, confirmations
             \* lost, a killed insmod), plugs, sleeps and unloads of the WLAN driver

ASSUME BootAssumption ==
  /\ Chunk \in Nat \ {0} /\ MaxPoll \in Nat /\ Urbs \in Nat \ {0}
  /\ \A s \in Scenes : /\ s.chip \in Configs
                       /\ {s.faults, s.plugs, s.sleeps, s.unloads} \subseteq Nat

VARIABLES
  c,       \* the chip and the parameters of this behaviour
  dev,     \* the device on the bus: "gone", "rom" (boot ROM) or "run" (firmware)
  pend,    \* what the chip, restarting, will come back as
  left,    \* the faults, plugs, sleeps and unloads left
  drv,     \* the USB core: the driver it is in, where, and the step of the script
  held,    \* what the bound driver has taken and not given back
  mem,     \* what the chip has been given: pairs of a name and a byte or word
  crashed, \* cmd_mgr.state is RWNX_CMD_MGR_STATE_CRASHED
  loaded,  \* fw_loaded of the loader
  plat,    \* g_rwnx_plat and the semaphore of the WLAN driver; for the properties,
           \* early: the disconnect has gone by the flag of the completion handler, or
           \* stopping the bus has given the semaphore back because of it, late: the
           \* unloading has stopped waiting, lost: the semaphore will not be given back
  cb,      \* the completion handler: "idle", "flag" (it has set the flag) or "down"
  rm,      \* the unloading of the WLAN driver
  oops
vars == <<c, dev, pend, left, drv, held, mem, crashed, loaded, plat, cb, rm, oops>>

-----------------------------------------------------------------------------
Take(r) == Step("take", r, 1)
Takes(s) == IF s = <<>> THEN <<>> ELSE [i \in DOMAIN s |-> Take(s[i])[1]]

(* The loader's probe; a chip on a slow port, or one that runs a firmware  *)
(* the loader has not given it, is only told to reboot.                    *)
LoaderTakes == Takes(<<"usb_dev", "parse", "urbs", "bus_if", "rx_priv", "cmd_buf",
                       "threads", "inflight", "cmd_mgr">>)
LoaderScript ==
  [k \in Configs, from \in {"rom", "run"} |->
     LoaderTakes
     \o (IF k.slow THEN Loosely(system_reboot) \o Step("restart", "rom", 1) \o ReturnsError
         ELSE IF from = "run"
         THEN Loosely(rwnx_send_reboot) \o Step("restart", "rom", 1) \o ReturnsError
         ELSE system_config(k) \o aicfw_download_fw(k))]

(* The WLAN driver's probe. *)
WlanTakes == Takes(<<"usb_dev", "bufs", "parse", "urbs", "bus_if", "rx_priv", "cmd_buf",
                     "threads", "inflight", "plat", "wiphy", "cache", "wq">>)
WlanScript ==
  [k \in Configs |->
     WlanTakes \o BeforeRegister(k) \o Take("registered") \o AfterRegister(k)
     \o Take("iface") \o Step("enable", "enabled", 1)]
(* The step a probe has come to, none at its end. *)
StepAt(i) ==
  LET script == IF drv.who = "loader" THEN LoaderScript[c, drv.from] ELSE WlanScript[c]
  IN IF i <= Len(script) THEN {script[i]} ELSE {}

(* What giving back a resource runs into: its users must be gone.          *)
Users(r) ==
  CASE r = "urbs" -> {"inflight", "tx_thread"}
                     \cup (IF drv.who = "wlan" THEN {"rx_thread"} ELSE {})
    [] r \in {"usb_dev", "bus_if"} -> {"inflight", "tx_thread", "rx_thread"}
    [] r \in {"rx_priv", "rxq"} -> {"inflight", "rx_thread"}
    [] r = "reord" -> {"rx_thread"}
    [] r = "recv_frames" -> IF drv.who = "wlan" THEN {"rx_thread"} ELSE {}
    [] r = "cmd_mgr" -> {"iface", "registered"}
    [] r = "wiphy" -> {"iface", "registered", "wq"}
    [] r = "bufs" -> {"inflight"}
    [] OTHER -> {}

-----------------------------------------------------------------------------
(* The undoing, as the order in which the functions give things back.      *)
LoaderBusDeinit == <<"stop", "inflight", "cmd_mgr", "cmd_buf", "tx_thread">>
LoaderRxDeinit == <<"rxq", "recv_frames", "rx_thread", "rx_priv">>
LoaderDisconnect ==
  LoaderBusDeinit \o <<"urbs">> \o LoaderRxDeinit \o <<"bus_if", "usb_dev">>
LoaderFreeBus ==
  LoaderBusDeinit \o LoaderRxDeinit \o <<"bus_if", "urbs", "usb_dev">>

rwnx_cfg80211_deinit == <<"wq", "iface", "registered", "off", "cache", "wiphy">>
\* mutant: the descriptors go before the thread, as in the loader
aicwf_rx_deinit_FramesFirst == <<"reord", "rxq", "recv_frames", "rx_thread", "rx_priv">>
aicwf_rx_deinit == <<"reord", "rx_thread", "rxq", "recv_frames", "rx_priv">>
aicwf_bus_deinit ==
  <<"stop", "inflight", "platform", "cmd_buf", "tx_thread">> \o aicwf_rx_deinit \o <<"cmd_mgr">>
WlanFreeBus == aicwf_bus_deinit \o <<"bus_if", "urbs", "bufs", "usb_dev">>
aicwf_usb_disconnect ==
  aicwf_bus_deinit \o <<"urbs", "bus_if", "bufs", "usb_dev", "up">>

(* The goto of a probe that fails at a step, by what it holds then.  NULL  *)
(* calls and pointers used after they are freed are Oops.                  *)
Oops == <<"oops">>
LoaderUnwind ==
  IF "usb_dev" \notin held THEN <<>>
  ELSE IF "urbs" \notin held THEN <<"usb_dev">>
  ELSE IF "bus_if" \notin held THEN <<"urbs", "usb_dev">>
  ELSE IF "cmd_mgr" \notin held THEN Oops
  ELSE LoaderFreeBus
Cfg80211Unwind ==
  IF "wiphy" \notin held THEN <<>>
  ELSE IF "cache" \notin held THEN <<"wiphy">>
  ELSE IF "wq" \notin held THEN Oops
  ELSE IF "registered" \notin held THEN <<"wq", "off", "cache", "wiphy">>
  ELSE <<"registered", "wq", "off", "cache", "wiphy">>
WlanUnwind ==
  IF "usb_dev" \notin held THEN <<>>
  ELSE IF "bufs" \notin held THEN Oops
  ELSE IF "urbs" \notin held THEN <<"bufs", "usb_dev">>
  ELSE IF "bus_if" \notin held THEN <<"urbs", "bufs", "usb_dev">>
  ELSE IF "rx_priv" \in held /\ "tx_thread" \notin held THEN Oops
  ELSE Cfg80211Unwind \o WlanFreeBus
(* The loader's probe returns 0 when it fails after the bus has started,   *)
(* so that the USB core keeps the device bound to it.                      *)
EndOfUnwind == IF drv.who = "loader" /\ "cmd_mgr" \in held THEN "bound" ELSE "unbound"

-----------------------------------------------------------------------------
(* One request.  The chip is given s; what the caller is told depends on   *)
(* the driver and on whether the confirmation comes.                       *)
Faulty == left.faults > 0
AFault == left' = [left EXCEPT !.faults = @ - 1]
Present == dev # "gone" /\ dev = drv.from
Next1 == drv' = [drv EXCEPT !.ip = @ + 1, !.at = 0]
Failed(s) ==
  IF s.onfail # Stops
  THEN drv' = [drv EXCEPT !.ip = @ + 1 + s.onfail, !.at = 0]
  ELSE LET ops == IF drv.who = "loader" THEN LoaderUnwind ELSE WlanUnwind
       IN drv' = [drv EXCEPT !.pc = "ops", !.ops = ops, !.end = EndOfUnwind]

\* mutant: the loop also sends a last block that is full, and stops there
LastByte_Short == IF drv.at < c.size - Chunk THEN drv.at + Chunk
                  ELSE IF drv.at = 0 THEN c.size ELSE drv.at

(* The bytes of an image: all but the last block are full, the last one    *)
(* takes what is left.                                                     *)
InLoop(s) == s.op \in {"file", "array"} /\ c.size > Chunk /\ drv.at < c.size - Chunk
LastByte == IF drv.at < c.size - Chunk THEN drv.at + Chunk ELSE c.size
Sent(s) ==
  IF s.op \in {"file", "array"} THEN {<<s.what, b>> : b \in drv.at .. LastByte - 1}
  ELSE IF s.op \in {"write", "start"} THEN {<<s.what, s.n>>}
  ELSE {}
(* What the caller does once it has been told that the request was done.   *)
Proceed(s) ==
  \/ /\ InLoop(s)
     /\ drv' = [drv EXCEPT !.at = @ + Chunk]
  \/ /\ s.op = "poll"
     /\ IF drv.at < MaxPoll THEN drv' = [drv EXCEPT !.at = @ + 1] ELSE Failed(s)
  \/ ~InLoop(s) /\ Next1

Requesting(s) == \/ s.op \in {"read", "write", "file", "array", "poll"}
                 \/ s.op = "start" /\ drv.who = "wlan"
Answered(s) ==
  /\ Requesting(s) /\ ~crashed /\ Present
  /\ mem' = mem \cup Sent(s)
  /\ Proceed(s)
  /\ UNCHANGED <<crashed, left, held, pend, oops>>
\* mutant: the wait for a confirmation has no timeout
Lost_NoTimeout(s) ==
  /\ Requesting(s) /\ ~crashed /\ Present /\ Faulty /\ AFault
  /\ crashed' = TRUE
  /\ IF drv.who = "loader" THEN Proceed(s) ELSE Failed(s)
  /\ UNCHANGED <<mem, held, pend, oops>>

(* The confirmation does not come: the loader's cmd_mgr_queue returns 0,   *)
(* the WLAN driver's returns -ETIMEDOUT.                                   *)
Lost(s) ==
  /\ Requesting(s) /\ ~crashed /\ ~drv.killed
  /\ IF Present THEN Faulty /\ AFault ELSE UNCHANGED left
  /\ crashed' = TRUE
  /\ IF drv.who = "loader" THEN Proceed(s) ELSE Failed(s)
  /\ UNCHANGED <<mem, held, pend, oops>>
(* In a killed process no request waits, and the signal is taken for a     *)
(* confirmation, whether the chip has been reached or not.  The loader     *)
(* frees the command while it is in the list, where the next request or    *)
(* the confirmation may run into it.                                       *)
Interrupted(s) ==
  /\ Requesting(s) /\ ~crashed /\ drv.killed
  /\ mem' = IF Present THEN mem \cup Sent(s) ELSE mem
  /\ oops' \in {FALSE, drv.who = "loader"}
  /\ Proceed(s)
  /\ UNCHANGED <<crashed, left, held, pend>>
(* The file cannot be opened or read, there is no memory for the message,  *)
(* or a request has timed out before.                                      *)
aic_load_firmware(s) == drv.who = "loader" /\ s.op = "file" /\ Faulty
rwnx_load_firmware(s) == drv.who = "wlan" /\ s.op = "file" /\ Faulty
rwnx_msg_zalloc == Faulty
Refused(s) ==
  /\ Requesting(s)
  /\ \/ crashed /\ UNCHANGED left
     \/ (aic_load_firmware(s) \/ rwnx_load_firmware(s) \/ rwnx_msg_zalloc) /\ AFault
  /\ Failed(s)
  /\ UNCHANGED <<mem, crashed, held, pend, oops>>

(* The loader's start request is not confirmed and never refused.          *)
StartApp(s) ==
  /\ s.op = "start" /\ drv.who = "loader"
  /\ IF Present
     THEN mem' = mem \cup Sent(s) /\ pend' = IF s.what = "wlan" THEN "run" ELSE pend
     ELSE UNCHANGED <<mem, pend>>
  /\ Next1 /\ UNCHANGED <<crashed, left, held, oops>>
Restart(s) ==
  /\ s.op = "restart"
  /\ pend' = IF Present /\ ~crashed THEN s.what ELSE pend
  /\ Next1 /\ UNCHANGED <<crashed, left, mem, held, oops>>

(* Taking a resource, or reading a file of patches. *)
Added(r) == CASE r = "threads" -> {"tx_thread", "rx_thread"}
              [] r = "parse" -> {}
              [] r = "rx_priv" -> {"rx_priv", "rxq", "recv_frames"}
                                  \cup {x \in {"reord"} : drv.who = "wlan"}
              [] r = "wiphy" -> {"wiphy", "cmd_mgr"}
              [] OTHER -> {r}
Acquire(s) ==
  /\ s.op \in {"take", "parse"}
  /\ \/ /\ held' = IF s.op = "take" THEN held \cup Added(s.what) ELSE held
        /\ crashed' = (crashed /\ s.what \notin {"cmd_mgr", "wiphy"})
        /\ plat' = CASE s.what = "plat" -> [plat EXCEPT !.wait = FALSE, !.enabled = FALSE]
                     [] s.what = "inflight" -> [plat EXCEPT !.up = TRUE, !.failed = 0]
                     [] s.what = "wiphy" -> [plat EXCEPT !.hw = TRUE]
                     [] OTHER -> plat
        /\ Next1 /\ UNCHANGED left
     \/ /\ ~(drv.who = "loader" /\ s.what \in {"inflight", "cmd_mgr"})
        /\ Faulty /\ AFault
        /\ Failed(s)
        /\ plat' = IF s.what = "inflight" THEN [plat EXCEPT !.up = TRUE] ELSE plat
        /\ UNCHANGED <<held, crashed>>
  /\ UNCHANGED <<mem, pend, oops>>
Free(s) ==
  /\ s.op = "free"
  /\ held' = held \ {s.what}
  /\ Next1 /\ UNCHANGED <<crashed, left, mem, pend, oops>>
Fails(s) ==
  /\ s.op = "fail"
  /\ Failed(s) /\ UNCHANGED <<crashed, left, mem, pend, held, oops>>
(* aicwf_hostif_ready *)
Enable(s) ==
  /\ s.op = "enable"
  /\ plat' = [plat EXCEPT !.enabled = TRUE]
  /\ Next1 /\ UNCHANGED <<crashed, left, mem, pend, held, oops>>

ProbeStep ==
  /\ drv.pc = "probe"
  /\ \E s \in StepAt(drv.ip) :
        \/ (Answered(s) \/ Lost(s) \/ Interrupted(s) \/ Refused(s) \/ StartApp(s) \/ Restart(s)
            \/ Free(s) \/ Fails(s)) /\ UNCHANGED plat
        \/ Acquire(s)
        \/ Enable(s)
  /\ UNCHANGED <<c, dev, loaded, cb, rm>>
(* A probe inside insmod, whose process is killed. *)
Kill ==
  /\ drv.pc = "probe" /\ ~drv.killed /\ Faulty /\ AFault
  /\ drv' = [drv EXCEPT !.killed = TRUE]
  /\ UNCHANGED <<c, dev, pend, held, mem, crashed, loaded, plat, cb, rm, oops>>
ProbeEnds ==
  /\ drv.pc = "probe" /\ StepAt(drv.ip) = {}
  /\ drv' = [drv EXCEPT !.pc = "bound", !.done = TRUE]
  /\ loaded' = (loaded \/ drv.who = "loader")
  /\ UNCHANGED <<c, dev, pend, left, held, mem, crashed, plat, cb, rm, oops>>

(* The USB core offers a new device to the loader, then to the WLAN        *)
(* driver; a DC is not in the loader's table.                              *)
Idle == [who |-> "none", from |-> "gone", pc |-> "idle", ip |-> 1, at |-> 0,
         ops |-> <<>>, end |-> "idle", done |-> FALSE, killed |-> FALSE]
aicwf_usb_probe ==
  /\ drv.pc = "idle" /\ dev # "gone"
  /\ \/ /\ c.chip # "DC" /\ (dev = "rom" \/ ~loaded)
        /\ drv' = [Idle EXCEPT !.who = "loader", !.from = dev, !.pc = "probe"]
     \/ /\ dev = "run" /\ (c.chip = "DC" \/ loaded) /\ rm.pc \notin {"gone", "out"}
        /\ drv' = [Idle EXCEPT !.who = "wlan", !.from = dev, !.pc = "probe"]
  /\ UNCHANGED <<c, dev, pend, left, held, mem, crashed, loaded, plat, cb, rm, oops>>

-----------------------------------------------------------------------------
(* Giving back, one operation at a time.  held, plat and oops of an        *)
(* operation; a second release is a double free.                           *)
Release(r) ==
  CASE r = "stop" ->      \* aicwf_usb_bus_stop
         /\ plat' = IF drv.who = "wlan" /\ plat.up /\ plat.wait
                    THEN [plat EXCEPT !.atomic = 1, !.sem = @ + 1, !.up = FALSE, !.early = TRUE]
                    ELSE [plat EXCEPT !.up = FALSE]
         /\ UNCHANGED <<held, oops>>
    [] r = "inflight" ->  \* aicwf_usb_cancel_all_urbs: the handler runs for every URB
         /\ cb = "idle"
         /\ r \in held /\ drv.who = "wlan" => plat.failed = Urbs
         /\ held' = held \ {r}
         /\ UNCHANGED <<plat, oops>>
    [] r = "off" -> plat' = [plat EXCEPT !.enabled = FALSE] /\ UNCHANGED <<held, oops>>
    [] r = "up" ->
         /\ plat' = [plat EXCEPT !.sem = @ + 1, !.atomic = 1] /\ UNCHANGED <<held, oops>>
    [] r = "oops" -> oops' = TRUE /\ UNCHANGED <<held, plat>>
    [] r = "usb_dev" ->
         held' = held \ {r} /\ plat' = [plat EXCEPT !.hw = FALSE] /\ UNCHANGED oops
    [] r \in {"wq", "wiphy", "cache"} ->
         held' = held \ {r} /\ oops' = (r \notin held) /\ UNCHANGED plat
    [] OTHER -> held' = held \ {r} /\ UNCHANGED <<plat, oops>>

(* rwnx_platform_deinit is run only while the platform is enabled. *)
Unwinding ==
  /\ drv.pc = "ops" /\ drv.ops # <<>>
  /\ IF Head(drv.ops) = "platform"
     THEN /\ drv' = [drv EXCEPT !.ops =
                       (IF plat.enabled THEN rwnx_cfg80211_deinit ELSE <<>>) \o Tail(@)]
          /\ UNCHANGED <<held, plat, oops>>
     ELSE /\ Release(Head(drv.ops))
          /\ drv' = [drv EXCEPT !.ops = Tail(@)]
  /\ UNCHANGED <<c, dev, pend, left, mem, crashed, loaded, cb, rm>>
Unwound ==
  /\ drv.pc = "ops" /\ drv.ops = <<>>
  /\ drv' = IF drv.end = "idle" THEN Idle ELSE [drv EXCEPT !.pc = drv.end]
  /\ UNCHANGED <<c, dev, pend, left, held, mem, crashed, loaded, plat, cb, rm, oops>>

(* The device has left, or the driver is unloaded: disconnect.  A probe    *)
(* that failed has set the interface's data to NULL.                       *)
Leaving == dev = "gone" \/ (drv.who = "wlan" /\ rm.pc = "gone")
Disconnect ==
  /\ Leaving
  /\ \/ /\ drv.pc = "unbound" \/ (drv.pc = "bound" /\ ~drv.done)
        /\ drv' = Idle
     \/ /\ drv.pc = "bound" /\ drv.done /\ drv.who = "loader"
        /\ drv' = [drv EXCEPT !.pc = "ops", !.ops = LoaderDisconnect, !.end = "idle"]
     \/ /\ drv.pc = "bound" /\ drv.done /\ drv.who = "wlan"
        /\ drv' = IF plat.wait
                  THEN [drv EXCEPT !.pc = "ops", !.ops = aicwf_usb_disconnect, !.end = "idle"]
                  ELSE [drv EXCEPT !.pc = "mark"]
  /\ plat' = [plat EXCEPT !.early = @ \/ (drv.who = "wlan" /\ drv.done /\ plat.wait)]
  /\ UNCHANGED <<c, dev, pend, left, held, mem, crashed, loaded, cb, rm, oops>>
DisconnectMark ==
  /\ drv.pc = "mark"
  /\ plat' = [plat EXCEPT !.atomic = 0]
  /\ drv' = [drv EXCEPT !.pc = "down"]
  /\ UNCHANGED <<c, dev, pend, left, held, mem, crashed, loaded, cb, rm, oops>>
DisconnectDown ==
  /\ drv.pc = "down" /\ plat.sem > 0
  /\ plat' = [plat EXCEPT !.sem = @ - 1, !.lost = @ \/ cb = "down"]
  /\ drv' = [drv EXCEPT !.pc = "ops", !.ops = aicwf_usb_disconnect, !.end = "idle"]
  /\ UNCHANGED <<c, dev, pend, left, held, mem, crashed, loaded, cb, rm, oops>>

-----------------------------------------------------------------------------
(* The completion handler: a receive URB of an unplugged or sleeping       *)
(* device fails.  wait_disconnect_cb makes the first one take the          *)
(* semaphore, to keep the unloading out until the disconnect.              *)
UrbError ==
  /\ drv.who = "wlan" /\ "inflight" \in held /\ cb = "idle"
  /\ dev = "gone" \/ ~plat.up
  /\ plat.failed < Urbs
  /\ IF plat.hw /\ ~plat.wait
     THEN /\ plat' = [plat EXCEPT !.failed = @ + 1, !.wait = TRUE]
          /\ cb' = "flag"
     ELSE plat' = [plat EXCEPT !.failed = @ + 1] /\ UNCHANGED cb
  /\ UNCHANGED <<c, dev, pend, left, drv, held, mem, crashed, loaded, rm, oops>>
UrbFlag ==
  /\ cb = "flag"
  /\ IF plat.atomic > 0
     THEN /\ plat' = [plat EXCEPT !.atomic = 0, !.lost = @ \/ plat.sem = 0]
          /\ cb' = "down"                 \* sleeps, if it must, in interrupt context
     ELSE plat' = [plat EXCEPT !.wait = FALSE] /\ cb' = "idle"
  /\ UNCHANGED <<c, dev, pend, left, drv, held, mem, crashed, loaded, rm, oops>>
(* Only bus_stop, while the flag is set, gives it back: taken while a      *)
(* failed probe undoes itself, or after the disconnect has read the flag,  *)
(* or with the flag cleared by the unloading, it is lost.                  *)
UrbDown ==
  /\ cb = "down" /\ plat.sem > 0
  /\ plat' = [plat EXCEPT !.sem = @ - 1, !.lost = @ \/ (drv.end = "unbound" /\ ~plat.up)
                                                       \/ drv.pc \in {"mark", "down"}]
  /\ cb' = "idle"
  /\ UNCHANGED <<c, dev, pend, left, drv, held, mem, crashed, loaded, rm, oops>>

-----------------------------------------------------------------------------
(* aicwf_usb_exit *)
ExitBegin ==
  /\ rm.pc = "no" /\ left.unloads > 0
  /\ left' = [left EXCEPT !.unloads = @ - 1]
  /\ rm' = [rm EXCEPT !.pc = "sem"]       \* the flag is free, or the retries are over
  /\ plat' = [plat EXCEPT !.atomic = 0]
  /\ UNCHANGED <<c, dev, pend, drv, held, mem, crashed, loaded, cb, oops>>
ExitDown ==
  /\ rm.pc = "sem"
  /\ \/ /\ plat.sem > 0
        /\ plat' = [plat EXCEPT !.sem = @ - 1, !.wait = FALSE, !.lost = @ \/ plat.wait]
     \/ /\ plat.sem = 0                   \* down_timeout gives up
        /\ plat' = [plat EXCEPT !.wait = FALSE, !.late = TRUE, !.lost = @ \/ plat.wait]
  /\ rm' = [rm EXCEPT !.pc = "deinit"]
  /\ UNCHANGED <<c, dev, pend, left, drv, held, mem, crashed, loaded, cb, oops>>
ExitDeinit ==
  /\ rm.pc = "deinit"
  /\ rm' = [rm EXCEPT !.pc = "ops",
                      !.ops = IF plat.enabled THEN rwnx_cfg80211_deinit ELSE <<>>]
  /\ UNCHANGED <<c, dev, pend, left, drv, held, mem, crashed, loaded, plat, cb, oops>>
ExitOps ==
  /\ rm.pc = "ops" /\ rm.ops # <<>>
  /\ Release(Head(rm.ops))
  /\ rm' = [rm EXCEPT !.ops = Tail(@)]
  /\ UNCHANGED <<c, dev, pend, left, drv, mem, crashed, loaded, cb>>
ExitUp ==
  /\ rm.pc = "ops" /\ rm.ops = <<>>
  /\ plat' = [plat EXCEPT !.sem = @ + 1, !.atomic = 1]
  /\ rm' = [rm EXCEPT !.pc = "gone"]
  /\ UNCHANGED <<c, dev, pend, left, drv, held, mem, crashed, loaded, cb, oops>>
(* usb_deregister disconnects the device; then the platform is freed.      *)
ExitEnds ==
  /\ rm.pc = "gone" /\ drv.who # "wlan"
  /\ rm' = [rm EXCEPT !.pc = "out"]
  /\ held' = held \ {"plat"}
  /\ UNCHANGED <<c, dev, pend, left, drv, mem, crashed, loaded, plat, cb, oops>>

-----------------------------------------------------------------------------
aicwf_usb_suspend ==
  /\ drv.pc = "bound" /\ drv.who = "wlan" /\ drv.done /\ dev = "run" /\ plat.up
  /\ rm.pc \in {"no", "out"}             \* user space is frozen
  /\ left.sleeps > 0
  /\ left' = [left EXCEPT !.sleeps = @ - 1]
  /\ plat' = IF plat.wait THEN [plat EXCEPT !.atomic = 1, !.sem = @ + 1, !.up = FALSE]
             ELSE [plat EXCEPT !.up = FALSE]
  /\ UNCHANGED <<c, dev, pend, drv, held, mem, crashed, loaded, cb, rm, oops>>
(* The USB core flushes the URBs before the device sleeps and the driver   *)
(* submits them again.                                                     *)
aicwf_usb_resume ==
  /\ drv.pc = "bound" /\ drv.who = "wlan" /\ drv.done /\ dev = "run" /\ ~plat.up
  /\ cb = "idle" /\ plat.failed = Urbs
  /\ plat' = [plat EXCEPT !.up = TRUE, !.failed = 0]
  /\ UNCHANGED <<c, dev, pend, left, drv, held, mem, crashed, loaded, cb, rm, oops>>

(* The device. *)
Plug ==
  /\ dev = "gone" /\ pend = "none" /\ drv.pc = "idle" /\ left.plugs > 0
  /\ dev' = IF c.chip = "DC" THEN "run" ELSE "rom"
  /\ mem' = {}
  /\ left' = [left EXCEPT !.plugs = @ - 1]
  /\ UNCHANGED <<c, pend, drv, held, crashed, loaded, plat, cb, rm, oops>>
Unplug ==
  /\ dev # "gone"
  /\ dev' = "gone" /\ pend' = "none"
  /\ UNCHANGED <<c, left, drv, held, mem, crashed, loaded, plat, cb, rm, oops>>
Leave ==
  /\ dev # "gone" /\ pend # "none"
  /\ dev' = "gone"
  /\ UNCHANGED <<c, pend, left, drv, held, mem, crashed, loaded, plat, cb, rm, oops>>
ComeBack ==
  /\ dev = "gone" /\ pend # "none" /\ drv.pc = "idle"
  /\ dev' = pend /\ pend' = "none"
  /\ mem' = {}
  /\ UNCHANGED <<c, left, drv, held, crashed, loaded, plat, cb, rm, oops>>

Init ==
  /\ \E s \in Scenes :
       c = s.chip /\ left = [f \in {"faults", "plugs", "sleeps", "unloads"} |-> s[f]]
  /\ dev = "gone" /\ pend = "none"
  /\ drv = Idle /\ held = {} /\ mem = {} /\ crashed = FALSE /\ loaded = FALSE
  /\ plat = [enabled |-> FALSE, wait |-> FALSE, atomic |-> 1, sem |-> 1,
             up |-> FALSE, failed |-> 0, hw |-> FALSE, early |-> FALSE, late |-> FALSE, lost |-> FALSE]
  /\ cb = "idle" /\ rm = [pc |-> "no", ops |-> <<>>] /\ oops = FALSE

DriverStep == ProbeStep \/ ProbeEnds \/ aicwf_usb_probe \/ Unwinding \/ Unwound \/ Disconnect
              \/ DisconnectMark \/ DisconnectDown
HandlerStep == UrbError \/ UrbFlag \/ UrbDown
ExitStep == ExitDown \/ ExitDeinit \/ ExitOps \/ ExitUp \/ ExitEnds
Next ==
  /\ ~oops
  /\ \/ DriverStep \/ HandlerStep \/ ExitBegin \/ ExitStep
     \/ aicwf_usb_suspend \/ aicwf_usb_resume \/ Kill
     \/ Plug \/ Unplug \/ Leave \/ ComeBack
Fairness == WF_vars(~oops /\ DriverStep) /\ WF_vars(~oops /\ HandlerStep)
            /\ WF_vars(~oops /\ ExitStep)
Spec == Init /\ [][Next]_vars /\ Fairness

-----------------------------------------------------------------------------
(* What a script must have given the chip: the units of its requests whose *)
(* result is checked.                                                      *)
Units(s, size) ==
  CASE s.op \in {"file", "array"} -> {<<s.what, b>> : b \in 0 .. size - 1}
    [] s.op \in {"write", "start"} -> {<<s.what, s.n>>}
    [] OTHER -> {}
CheckedSteps(s) == {i \in DOMAIN s : s[i].onfail = Stops
                                     /\ s[i].op \in {"read", "write", "file", "array", "poll"}}
Whole(s, size, steps) == UNION {Units(s[i], size) : i \in steps}
LoaderWhole ==
  [k \in Configs, from \in {"rom", "run"} |->
     LET s == LoaderScript[k, from] IN Whole(s, k.size, CheckedSteps(s))]
(* The last of these requests: of an image, its last block.                *)
LastRequest ==
  [k \in Configs, from \in {"rom", "run"} |->
     LET s == LoaderScript[k, from]
         steps == CheckedSteps(s)
         last == {i \in steps : \A j \in steps : j <= i}
         before == ((k.size - 1) \div Chunk) * Chunk
     IN UNION {Units(s[i], k.size) \ {<<s[i].what, b>> : b \in {x \in 0 .. before - 1 :
                                               s[i].op \in {"file", "array"}}} : i \in last}]
WlanWhole ==
  [k \in Configs |-> LET s == WlanScript[k] IN Whole(s, k.size, CheckedSteps(s))]

(* A probe that succeeds has given the chip every byte of every image and  *)
(* every register whose request is checked.  The loader takes a lost       *)
(* confirmation for a success (aicbluetooth_cmds.c:102-121) but refuses    *)
(* every request that follows, so that only the last one, of an image its  *)
(* last block, may be missing.  A process that is killed gets no such      *)
(* promise: to both drivers the signal is a confirmation.                  *)
StartedWhole ==
  drv.done /\ drv.pc = "bound" /\ ~drv.killed =>
    CASE drv.who = "wlan" -> WlanWhole[c] \subseteq mem
      [] crashed -> LoaderWhole[c, drv.from] \ LastRequest[c, drv.from] \subseteq mem
      [] OTHER -> LoaderWhole[c, drv.from] \subseteq mem

(* What aicwf_rx_deinit gives back before it stops the thread that uses    *)
(* it: the loader flushes rxq without its lock (aic_txrxif.c:316), the     *)
(* WLAN driver frees all reorder state (aicwf_txrxif.c:1066-1069).         *)
Hasty == IF drv.who = "loader" THEN {"rxq"} ELSE {"reord"}

(* Nothing but what Hasty names is given back while something that uses it *)
(* still runs: URBs in flight and the bus threads in front of the buffers, *)
(* structures and URBs, interfaces and the registration in front of the    *)
(* wiphy (aicwf_bus_deinit, both disconnects, both sets of labels of       *)
(* probe).  When Hasty goes no URB is in flight any more.                  *)
UsersFirst ==
  [][\A r \in held \ held' :
       Users(r) \cap held' \subseteq (IF r \in Hasty THEN {"rx_thread"} ELSE {})]_vars

(* The WLAN driver's data is torn down by one actor at a time (the         *)
(* semaphore of aicwf_usb_disconnect and aicwf_usb_exit), except where the *)
(* hand-over itself gives it away: a disconnect that finds the handler's   *)
(* flag does not take it, bus_stop releases it when it finds the flag, and *)
(* the unloading stops waiting in the end.                                 *)
DeinitExclusive ==
  ~(drv.pc = "ops" /\ drv.who = "wlan" /\ drv.end = "idle" /\ rm.pc = "ops" /\ rm.ops # <<>>)
  \/ plat.early \/ plat.late

(* What probes promise and what tears them down never cross.               *)
LifeSafe == StartedWhole /\ DeinitExclusive

(* An unplugged device is always released in the end, and the unloading    *)
(* always ends, unless the driver has crashed or the semaphore is lost in  *)
(* one of the ways that UrbFlag, UrbDown, DisconnectDown and ExitDown mark.*)
Broken == oops \/ plat.lost
Ends ==
  /\ (dev = "gone" ~> (drv.pc = "idle" \/ Broken))
  /\ (rm.pc = "sem" ~> (rm.pc \in {"gone", "out"} \/ Broken))
=============================================================================
