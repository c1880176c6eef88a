------------------------------ MODULE WextScan ------------------------------
(***************************************************************************)
(* The wireless extensions (aicwf_wext_linux.c): a scan asked for through  *)
(* them and a scan of cfg80211 share scan_request, scanning and one        *)
(* completion message; the results of both collect in wext_scanre_list     *)
(* until a caller fetches them as a stream of events.                      *)
(*                                                                         *)
(* A network is its address, its information elements (lengths of the WPA, *)
(* RSN and WPS ones, 0 when absent) and its capabilities.  The ioctls run  *)
(* under the RTNL lock, one at a time; cfg80211 has a lock of its own.     *)
(***************************************************************************)
EXTENDS Integers, Sequences, FiniteSets, FiniteSetsExt, SequencesExt

CONSTANTS
  Nets,       \* the networks in the air
  Rooms,      \* lengths of the buffer results are fetched into
  WextScenes  \* as bounds: ioctls, scans of cfg80211, faults, the networks heard

VARIABLES
  sc,      \* rwnx_hw: scanning, wext_scan, scan_request (0 is NULL), wext_scan_com
  wx,      \* the ioctl: pc, request, what it streams into, position in the list
  lst,     \* wext_scanre_list
  cfgscan, \* the request cfg80211 waits for, 0 when none
  radio,     \* the firmware: scanning, the messages on their way
  seen,    \* history: references held, whether a request went to the wrong owner, or something astray
  wleft    \* what the bounds leave; its ioctl count also numbers the requests
wextVars == <<sc, wx, lst, cfgscan, radio, seen, wleft>>

(* The events of a network with their lengths, on a machine of 64 bits.    *)
Point(n) == 16 + n
aicwf_get_iwe_stream_mac_addr(n) == <<24>>
aicwf_get_iwe_stream_essid(n) == <<Point(IF n.ssid < 32 THEN n.ssid ELSE 32)>>
aicwf_get_iwe_stream_protocol(n) == <<24>>
aicwf_get_iwe_stream_chan(n) == <<16>>
aicwf_get_iwe_stream_mode(n) == IF n.mode = "none" THEN <<>> ELSE <<12>>
aicwf_get_iwe_stream_encryption(n) == <<Point(0)>>
aicwf_get_iwe_stream_rate_event(n) == <<16>>
(* The text of the second element is printed behind the first's, and the   *)
(* buffer it starts in is empty again: its event carries nothing.          *)
aicwf_get_iwe_stream_wpa_wpa2(n) ==
  (IF n.wpa > 0 THEN <<Point(7 + 2 * n.wpa), Point(n.wpa)>> ELSE <<>>) \o
  (IF n.rsn > 0 THEN <<Point(IF n.wpa > 0 THEN 0 ELSE 7 + 2 * n.rsn), Point(n.rsn)>> ELSE <<>>)
(* The elements are copied, header included, into arrays of 255 bytes, and *)
(* printed into a buffer of 512 without looking at either's end; sprintf   *)
(* adds a terminator.                                                      *)
SecFits(n) ==
  /\ n.wpa <= 255 /\ n.rsn <= 255
  /\ (IF n.wpa > 0 THEN 7 + 2 * n.wpa ELSE 0) + (IF n.rsn > 0 THEN 7 + 2 * n.rsn ELSE 0) + 1 <= 512
aicwf_get_iwe_stream_wps(n) == IF n.wps > 2 THEN <<Point(n.wps)>> ELSE <<>>
aicwf_get_iwe_stream_rssi(n) == <<12>>
Events(n) ==
  aicwf_get_iwe_stream_mac_addr(n) \o aicwf_get_iwe_stream_essid(n) \o
  aicwf_get_iwe_stream_protocol(n) \o aicwf_get_iwe_stream_chan(n) \o
  aicwf_get_iwe_stream_mode(n) \o aicwf_get_iwe_stream_encryption(n) \o
  aicwf_get_iwe_stream_rate_event(n) \o aicwf_get_iwe_stream_wpa_wpa2(n) \o
  aicwf_get_iwe_stream_wps(n) \o aicwf_get_iwe_stream_rssi(n)

(* The rates a network may be shown with, in Mbit/s: HE by its width, VHT *)
(* by the lower half of the first byte of its MCS map, less 1, in a table  *)
(* (80 MHz in the 5 GHz band, 40 MHz below; long and short guard), HT by   *)
(* width and guard.  A half of 0 becomes index 255 of a row of 30, past    *)
(* the end of the whole table, where anything of 16 bits may be.           *)
HeRate == [w20 |-> 288, w40 |-> 574, w80 |-> 1202, w160 |-> 2294]
VHT_MCS_DATA_RATE ==
  [five |-> <<<<59, 117, 176, 234, 351, 468, 527, 585, 702, 780, 117, 234, 351, 468, 702>>,
              <<65, 130, 195, 260, 390, 520, 585, 650, 780, 867, 130, 260, 390, 520, 780>>>>,
   two |-> <<<<27, 54, 81, 108, 162, 216, 243, 270, 324, 360, 54, 108, 162, 216, 324>>,
             <<30, 60, 90, 120, 180, 240, 270, 300, 360, 400, 60, 120, 180, 240, 360>>>>]
Guard(n) == IF n.sgi THEN 2 ELSE 1
HtRate(n) ==
  LET rate == IF n.mcs15 THEN IF n.wide THEN <<270, 300>> ELSE <<130, 144>>
                         ELSE IF n.wide THEN <<135, 150>> ELSE <<65, 72>>
  IN rate[Guard(n)]
aicwf_get_iwe_stream_rate(n) ==
  CASE n.gen = "he"  -> {HeRate[n.width]}
    [] n.gen = "vht" -> IF n.map = 0 THEN 0..65535 ELSE {VHT_MCS_DATA_RATE[n.band][Guard(n)][n.map]}
    [] n.gen = "ht"  -> {HtRate(n)}
    [] OTHER         -> {0}
(* max_rate * 1000000 in an int; TLC's integers have 32 bits themselves,   *)
(* so the wrap is stated in units of 1000000 (2^31 is 2147.48 of them,     *)
(* 2^32 is 4294.97, taken for 4295).                                       *)
Bitrate(r) == LET m == r % 4295 IN IF m > 2147 THEN m - 4295 ELSE m
Negative == {n \in Nets : \E r \in aicwf_get_iwe_stream_rate(n) : Bitrate(r) < 0}

(* iwe_stream_add_event and iwe_stream_add_point: an event that does not   *)
(* fit with a byte to spare is left out, and nobody is told.               *)
Left(room, ev) ==
  LET spare[i \in 0..Len(ev)] ==
        IF i = 0 THEN room
        ELSE LET r == spare[i - 1] IN IF ev[i] < r THEN r - ev[i] ELSE r
  IN spare
translate_scan(n, room) ==
  LET ev == Events(n)
      spare == Left(room, ev)
  IN [room |-> spare[Len(ev)], whole |-> \A i \in DOMAIN ev : ev[i] < spare[i - 1]]
Streamed == [n \in Nets |-> [room \in 0..Max(Rooms) |-> translate_scan(n, room)]]
Stream(s, n) == [s EXCEPT !.room = Streamed[n][s.room].room, !.whole = @ /\ Streamed[n][s.room].whole]

-----------------------------------------------------------------------------
WIdle == [pc |-> "idle", req |-> 0, waits |-> FALSE, room |-> 0, whole |-> TRUE, at |-> 0]
wext_init ==
  /\ sc = [scanning |-> FALSE, wext |-> FALSE, req |-> 0, com |-> 0]
  /\ wx = WIdle /\ lst = <<>> /\ cfgscan = 0
  /\ radio = [scan |-> FALSE, hear |-> {}, out |-> <<>>]
  /\ seen = [refs |-> {}, wrong |-> FALSE, stray |-> FALSE]
  /\ wleft \in WextScenes
Fault == wleft.faults > 0 /\ wleft' = [wleft EXCEPT !.faults = @ - 1]
NewId == wleft.ioctls + wleft.scans + 1
IsWext(id) == id > 100
Begin == [radio EXCEPT !.scan = TRUE, !.hear = wleft.air]
(* A scan whose end has not arrived, though neither flag says so: an       *)
(* interface was closed meanwhile, or another scan's end was taken for it. *)
Unseen == ~sc.wext /\ ~sc.scanning /\ (radio.scan \/ Contains(radio.out, {}))
Cancelled == [radio EXCEPT !.scan = FALSE, !.out = IF radio.scan THEN Append(@, {}) ELSE @]

(* rwnx_cfg80211_scan: scan_request is set before the request is sent, and *)
(* stays when that fails, though cfg80211 then frees it.                   *)
rwnx_cfg80211_scan ==
  /\ cfgscan = 0 /\ ~sc.scanning /\ wleft.scans > 0
  /\ sc' = [sc EXCEPT !.req = NewId, !.scanning = TRUE]
  /\ \/ /\ wleft' = [wleft EXCEPT !.scans = @ - 1]
        /\ cfgscan' = NewId /\ radio' = Begin
        /\ seen' = [seen EXCEPT !.stray = @ \/ wx.pc \in {"scan", "send", "sent"} \/ sc.wext \/ Unseen]
     \/ /\ wleft.faults > 0 /\ wleft' = [wleft EXCEPT !.scans = @ - 1, !.faults = @ - 1]
        /\ radio' \in {radio, Begin}
        /\ seen' = [seen EXCEPT !.stray = TRUE] /\ UNCHANGED cfgscan
  /\ UNCHANGED <<wx, lst>>
(* rwnx_close, under the RTNL lock, clears scanning whoever scans.  When   *)
(* the interface closed is the one cfg80211's scan was asked for on, it is *)
(* told at once, and the end that the firmware sends for the cancelled     *)
(* scan finds no request.  The interface of a request of the wireless      *)
(* extensions is never set: what the memory held may happen to be this     *)
(* one, and cfg80211 is handed a request that is not its own.              *)
rwnx_close ==
  /\ wx.pc = "idle" /\ (sc.scanning \/ sc.req # 0)
  /\ \/ /\ sc' = [sc EXCEPT !.scanning = FALSE]
        /\ sc.scanning /\ UNCHANGED <<cfgscan, radio, seen, wleft>>
     \/ /\ sc.req # 0 /\ sc' = [sc EXCEPT !.scanning = FALSE, !.req = 0]
        /\ radio' = Cancelled
        /\ \/ sc.req = cfgscan /\ cfgscan' = 0 /\ UNCHANGED <<seen, wleft>>
           \/ /\ IsWext(sc.req) /\ Fault
              /\ seen' = [seen EXCEPT !.wrong = TRUE, !.stray = TRUE]
              /\ UNCHANGED cfgscan
  /\ UNCHANGED <<wx, lst>>

(* aicwf_set_scan: cancels what runs (and returns with nothing done when   *)
(* that fails), waits 150 ms, ...                                          *)
aicwf_set_scan ==
  /\ wx.pc = "idle" /\ wleft.ioctls > 0
  /\ wleft' = [wleft EXCEPT !.ioctls = @ - 1]
  /\ IF sc.wext \/ sc.scanning THEN radio' = Cancelled ELSE UNCHANGED radio
  /\ wx' = [wx EXCEPT !.pc = "scan", !.req = 100 + NewId, !.waits = sc.wext \/ sc.scanning]
  /\ seen' = [seen EXCEPT !.stray = @ \/ Unseen]
  /\ UNCHANGED <<sc, lst, cfgscan>>
(* ... in which the end of the cancelled scan arrives, as a rule.          *)
SetScanFlag ==
  /\ wx.pc = "scan"
  /\ \/ (radio.out = <<>> \/ ~wx.waits) /\ UNCHANGED <<wleft, seen>>
     \/ radio.out # <<>> /\ wx.waits /\ Fault /\ seen' = [seen EXCEPT !.stray = TRUE]
  /\ sc' = [sc EXCEPT !.wext = TRUE]
  /\ wx' = [wx EXCEPT !.pc = "send"]
  /\ UNCHANGED <<lst, cfgscan, radio>>
(* An error, of memory or of the request, returns with wext_scan set and   *)
(* the request neither freed nor known to anyone.                          *)
SetScanSend ==
  /\ wx.pc = "send"
  /\ sc' = [sc EXCEPT !.scanning = TRUE]
  /\ \/ /\ wx' = [wx EXCEPT !.pc = "sent"] /\ radio' = Begin
        /\ UNCHANGED <<seen, wleft>>
     \/ /\ Fault /\ seen' = [seen EXCEPT !.stray = TRUE]
        /\ wx' = WIdle /\ UNCHANGED radio
  /\ UNCHANGED <<lst, cfgscan>>
SetScanStore ==
  /\ wx.pc = "sent"
  /\ sc' = [sc EXCEPT !.req = wx.req]
  /\ wx' = [wx EXCEPT !.pc = "wait"]
  /\ UNCHANGED <<lst, cfgscan, radio, seen, wleft>>
SetScanDone ==
  /\ wx.pc = "wait"
  /\ \/ sc.com > 0 /\ sc' = [sc EXCEPT !.com = @ - 1] /\ UNCHANGED <<wleft, seen>>
     \/ sc.com = 0 /\ Fault /\ seen' = [seen EXCEPT !.stray = TRUE] /\ UNCHANGED sc
  /\ wx' = WIdle
  /\ UNCHANGED <<lst, cfgscan, radio>>

(* aicwf_get_scan: translates the list, gives up when less than 768 bytes  *)
(* are left, and otherwise empties the list, whatever it holds by then.  A *)
(* network whose elements overrun their buffers ends what can be said.     *)
aicwf_get_scan ==
  /\ wx.pc = "idle" /\ wleft.ioctls > 0 /\ lst # <<>>
  /\ wleft' = [wleft EXCEPT !.ioctls = @ - 1]
  /\ \E r \in Rooms : wx' = [wx EXCEPT !.pc = "walk", !.room = r, !.at = 1]
  /\ UNCHANGED <<sc, lst, cfgscan, radio, seen>>
GetScanWalk ==
  /\ wx.pc = "walk"
  /\ LET s == Stream(wx, lst[wx.at]) IN
     wx' = IF ~SecFits(lst[wx.at]) THEN [wx EXCEPT !.pc = "oops"]
           ELSE IF s.room < 768 THEN WIdle
           ELSE [s EXCEPT !.at = @ + 1, !.pc = IF wx.at = Len(lst) THEN "clear" ELSE "walk"]
  /\ UNCHANGED <<sc, lst, cfgscan, radio, seen, wleft>>
GetScanClear ==
  /\ wx.pc = "clear"
  /\ lst' = <<>> /\ wx' = WIdle
  /\ UNCHANGED <<sc, cfgscan, radio, seen, wleft>>

(* The firmware reports what it hears and, as a message without a network, *)
(* the end of the scan, in order.                                          *)
Hear ==
  /\ radio.scan
  /\ \/ \E n \in radio.hear : radio' = [radio EXCEPT !.hear = @ \ {n}, !.out = Append(@, {n})]
     \/ radio.hear = {} /\ radio' = Cancelled
  /\ UNCHANGED <<sc, wx, lst, cfgscan, seen, wleft>>
(* rwnx_rx_scanu_result_ind: a network not listed yet is added with its    *)
(* reference, which is never given back.                                   *)
rwnx_rx_scanu_result_ind ==
  /\ radio.out # <<>> /\ radio.out[1] # {}
  /\ radio' = [radio EXCEPT !.out = Tail(@)]
  /\ IF \E i \in DOMAIN lst : {lst[i]} = radio.out[1] THEN UNCHANGED <<lst, seen>>
     ELSE /\ lst' = lst \o SetToSeq(radio.out[1])
          /\ seen' = [seen EXCEPT !.refs = @ \cup radio.out[1]]
  /\ UNCHANGED <<sc, wx, cfgscan, wleft>>
(* rwnx_rx_scanu_start_cfm.  wrong: cfg80211 is handed, or the driver      *)
(* frees, a request that is not its own.                                   *)
rwnx_rx_scanu_start_cfm ==
  /\ radio.out # <<>> /\ radio.out[1] = {}
  /\ radio' = [radio EXCEPT !.out = Tail(@)]
  /\ sc' = [sc EXCEPT !.wext = FALSE, !.req = 0, !.scanning = FALSE,
                      !.com = IF sc.wext THEN @ + 1 ELSE @]
  /\ cfgscan' = IF ~sc.wext /\ sc.req = cfgscan THEN 0 ELSE cfgscan
  /\ seen' = [seen EXCEPT !.wrong = @ \/ (sc.req # 0 /\ sc.wext # IsWext(sc.req))
                                      \/ (~sc.wext /\ sc.req \notin {0, cfgscan}),
                          !.stray = @ \/ wx.pc = "sent"]
  /\ UNCHANGED <<wx, lst, wleft>>

WextStep == SetScanFlag \/ SetScanSend \/ SetScanStore \/ SetScanDone \/ GetScanWalk \/ GetScanClear
WextNext == \/ rwnx_cfg80211_scan \/ rwnx_close \/ aicwf_set_scan \/ aicwf_get_scan
            \/ WextStep \/ Hear \/ rwnx_rx_scanu_result_ind \/ rwnx_rx_scanu_start_cfm
WextFair == /\ WF_wextVars(WextStep) /\ WF_wextVars(Hear)
            /\ WF_wextVars(rwnx_rx_scanu_result_ind) /\ WF_wextVars(rwnx_rx_scanu_start_cfm)

-----------------------------------------------------------------------------
(* Every request goes back to whom it belongs to, and what scan_request   *)
(* names is one that is waited for, unless: an end comes after the 150 ms  *)
(* or before scan_request is stored, a request fails or is given up after  *)
(* 5 s, cfg80211 starts a scan inside aicwf_set_scan, or a scan starts     *)
(* after rwnx_close has cleared scanning but before the old end.  Every    *)
(* listed network is listed once and holds its reference, which            *)
(* translate_scan needs.                                                   *)
WextOwned ==
  /\ ~seen.stray => ~seen.wrong /\ (sc.req # 0 => sc.req \in {cfgscan, wx.req})
  /\ \A i, j \in DOMAIN lst : lst[i] = lst[j] => i = j
  /\ ToSet(lst) \subseteq seen.refs

(* A caller that is not told -E2BIG has got every event of every network   *)
(* it was shown, although an event that does not fit is left out without a *)
(* word: no event is longer than the 768 bytes that must remain.  Memory   *)
(* is overrun for none but a network whose WPA and RSN elements have more  *)
(* than 248 bytes together.  The rate shown is negative for none but an HE *)
(* network of 160 MHz and a VHT network whose map of MCSs starts with 0.   *)
WextWhole ==
  /\ wx.pc = "clear" => wx.whole
  /\ wx.pc = "oops" => lst[wx.at].wpa + lst[wx.at].rsn > 248
  /\ \A n \in ToSet(lst) \cap Negative :
        \/ n.gen = "he" /\ n.width = "w160"
        \/ n.gen = "vht" /\ n.map = 0

(* Requests, references and answers of the wireless extensions are all     *)
(* accounted for (aicwf_set_scan, aicwf_get_scan).                         *)
WextSafe == WextOwned /\ WextWhole

(* A scan asked for by an ioctl is waited for until it has ended, and one  *)
(* of cfg80211 ends, unless something went astray as WextOwned says.       *)
WextEnds == /\ [](wx.pc = "wait" => <>(wx.pc = "idle"))
            /\ [](cfgscan # 0 => <>(cfgscan = 0 \/ seen.stray))
=============================================================================
