------------------------------- MODULE Vendor -------------------------------
(***************************************************************************)
(* The vendor commands of Android (aic_vendor.c): each handler walks over  *)
(* the attributes it is given and then answers.  What it allocates on the  *)
(* way it has to give back, once, on every way out.                        *)
(*                                                                         *)
(* A handler is the set of its next states for an attribute, or for "end", *)
(* when there is none left.  cfg80211_vendor_cmd_reply consumes the reply. *)
(***************************************************************************)
EXTENDS Integers, Sequences

CONSTANTS
  AttrLists,    \* the attributes a command may come with, as sequences
  VendorCalls   \* bounds on the number of commands

VARIABLES
  vd,     \* the command: pc, name, attributes left, ip_pkt_len, the buffer's
          \* length (0 is NULL), whether more is read than an attribute or the
          \* buffer has, buffers lost, whether the channel list is allocated,
          \* replies given, the value returned
  vleft   \* what the bound leaves
vendorVars == <<vd, vleft>>

Back(v, ret) == [v EXCEPT !.pc = "back", !.ret = ret]
Unknown(v) == {Back(v, "EINVAL")}
Reply(v) == {Back(v, "ENOMEM"), Back([v EXCEPT !.replies = @ + 1], "ok")}
Skip(v) == {v}

(* The exit of aicwf_vendor_start_mkeep_alive frees ip_pkt. *)
Exit(v, ret) == Back([v EXCEPT !.pkt = 0], ret)
(* aic_dev_start_mkeep_alive copies ip_pkt_len bytes of ip_pkt. *)
aic_dev_start_mkeep_alive(v) == {Exit(v, "ENOMEM"), Exit([v EXCEPT !.over = v.len > v.pkt], "ok")}
aicwf_vendor_start_mkeep_alive(v, a) ==
  CASE a \in {"id", "mac", "period"} -> Skip(v)
    [] a \in {"short", "long"} -> {[v EXCEPT !.len = IF a = "short" THEN 1 ELSE 2]}
    [] a = "too_long" -> {Exit(v, "EINVAL")}
    [] a \in {"pkt", "long_pkt"} ->
         LET w == [v EXCEPT !.lost = IF v.pkt = 0 THEN @ ELSE @ + 1]
             has == IF a = "pkt" THEN 1 ELSE 2     \* the attribute's own length
         IN IF v.len = 0 THEN {Exit(v, "EINVAL")}
            ELSE {Exit([w EXCEPT !.pkt = 0], "ENOMEM"),
                  [w EXCEPT !.pkt = v.len, !.past = @ \/ v.len > has]}
    [] a = "end" -> IF v.pkt = 0 THEN {Exit(v, "EINVAL")} ELSE aic_dev_start_mkeep_alive(v)
    [] OTHER -> {Exit(v, "EINVAL")}
(* An unknown attribute is noted and forgotten. *)
aicwf_vendor_stop_mkeep_alive(v, a) ==
  IF a # "end" THEN Skip(v) ELSE {Back(v, "ok"), Back(v, "not a station")}
aicwf_vendor_get_ver(v, a) ==
  CASE a = "ver" -> {[v EXCEPT !.len = 1]}
    [] a = "end" -> IF v.len = 0 THEN {Back(v, "EINVAL")} ELSE Reply(v)
    [] OTHER     -> Unknown(v)
(* The list is allocated before the first attribute; an unknown attribute  *)
(* and a reply that cannot be allocated return without freeing it, and a   *)
(* band asked for twice is answered twice.                                 *)
aicwf_vendor_subcmd_get_channel_list(v, a) ==
  LET w == [v EXCEPT !.list = TRUE] IN
  CASE a = "band" -> {Back(w, "ENOMEM"), [w EXCEPT !.replies = @ + 1],
                      Back([w EXCEPT !.list = FALSE], "EMSGSIZE")}
    [] a = "end"  -> {Back([w EXCEPT !.list = FALSE], "ok")}
    [] OTHER      -> {Back(w, "EINVAL")}
aicwf_vendor_subcmd_set_country_code(v, a) ==
  CASE a = "country" -> Skip(v) [] a = "end" -> {Back(v, "ok")} [] OTHER -> Unknown(v)
aicwf_vendor_logger_start_logging(v, a) ==
  CASE a \in {"level", "name"} -> Skip(v)
    [] a = "end" -> {Back(v, "ok"), Back(v, "EINVAL")}
    [] OTHER -> Unknown(v)
aicwf_vendor_logger_get_ring_data(v, a) ==
  CASE a = "name" -> Skip(v) [] a = "end" -> {Back(v, "ok"), Back(v, "EINVAL")} [] OTHER -> Unknown(v)
aicwf_vendor_sub_cmd_set_mac(v, a) ==
  CASE a = "mac" -> Skip(v) [] a = "end" -> {Back(v, "ok")} [] OTHER -> Unknown(v)
(* These look at no attribute; the last of those that answer does not look *)
(* whether its reply could be allocated.                                   *)
aicwf_vendor_subcmd_get_feature_set(v, a) == Reply(v)
aicwf_vendor_logger_get_feature(v, a) == Reply(v)
aicwf_vendor_logger_get_ring_status(v, a) == Reply(v)
aicwf_vendor_logger_get_wake_reason_stats(v, a) == Reply(v)
aicwf_vendor_apf_subcmd_get_capabilities(v, a) == {Back([v EXCEPT !.replies = @ + 1], "ok")}
aicwf_vendor_logger_trigger_memory_dump(v, a) == {Back(v, "ok")}
aicwf_vendor_logger_get_tx_pkt_fates(v, a) == {Back(v, "ok")}
aicwf_vendor_logger_get_rx_pkt_fates(v, a) == {Back(v, "ok")}
aicwf_vendor_logger_start_pkt_fate_monitoring(v, a) == {Back(v, "ok")}

aicwf_vendor_cmd(v, a) ==
  [START_MKEEP_ALIVE |-> aicwf_vendor_start_mkeep_alive(v, a),
   STOP_MKEEP_ALIVE |-> aicwf_vendor_stop_mkeep_alive(v, a),
   GET_VER |-> aicwf_vendor_get_ver(v, a),
   GET_CHANNEL_LIST |-> aicwf_vendor_subcmd_get_channel_list(v, a),
   SET_COUNTRY_CODE |-> aicwf_vendor_subcmd_set_country_code(v, a),
   TRIGGER_MEM_DUMP |-> aicwf_vendor_logger_trigger_memory_dump(v, a),
   GET_FEATURE_SET |-> aicwf_vendor_subcmd_get_feature_set(v, a),
   GET_FEATURE |-> aicwf_vendor_logger_get_feature(v, a),
   GET_RING_STATUS |-> aicwf_vendor_logger_get_ring_status(v, a),
   START_LOGGING |-> aicwf_vendor_logger_start_logging(v, a),
   GET_RING_DATA |-> aicwf_vendor_logger_get_ring_data(v, a),
   GET_WAKE_REASON |-> aicwf_vendor_logger_get_wake_reason_stats(v, a),
   GET_TX_PKT_FATES |-> aicwf_vendor_logger_get_tx_pkt_fates(v, a),
   GET_RX_PKT_FATES |-> aicwf_vendor_logger_get_rx_pkt_fates(v, a),
   START_PKT_FATE |-> aicwf_vendor_logger_start_pkt_fate_monitoring(v, a),
   APF_GET_CAPABILITIES |-> aicwf_vendor_apf_subcmd_get_capabilities(v, a),
   SET_MAC |-> aicwf_vendor_sub_cmd_set_mac(v, a)]

VIdle == [pc |-> "idle", cmd |-> "", attrs |-> <<>>, all |-> <<>>, len |-> 0, pkt |-> 0, over |-> FALSE,
          past |-> FALSE, lost |-> 0, list |-> FALSE, replies |-> 0, ret |-> ""]
aicwf_vendor_init == vd = VIdle /\ vleft \in VendorCalls
VendorCall ==
  /\ vd.pc = "idle" /\ vleft > 0 /\ vleft' = vleft - 1
  /\ \E c \in DOMAIN aicwf_vendor_cmd(VIdle, "end"), l \in AttrLists :
       vd' = [VIdle EXCEPT !.pc = "run", !.cmd = c, !.attrs = l, !.all = l]
VendorStep ==
  /\ vd.pc = "run"
  /\ LET a == IF vd.attrs = <<>> THEN "end" ELSE vd.attrs[1]
         v == IF vd.attrs = <<>> THEN vd ELSE [vd EXCEPT !.attrs = Tail(@)]
     IN vd' \in aicwf_vendor_cmd(v, a)[vd.cmd]
  /\ UNCHANGED vleft
VendorReturn == vd.pc = "back" /\ vd' = VIdle /\ UNCHANGED vleft
VendorNext == VendorCall \/ VendorStep \/ VendorReturn

-----------------------------------------------------------------------------
Twice(l, S) == \E i, j \in DOMAIN l : i # j /\ l[i] \in S /\ l[j] \in S
After(l, S, a) == \E i, j \in DOMAIN l : i < j /\ l[i] \in S /\ l[j] = a
Packets == {"pkt", "long_pkt"}
(* A vendor command returns with everything freed, a value of "ok" from    *)
(* one that answers means one reply, and the packet of a keep-alive is not *)
(* read past its end.  Four things spoil it: a packet attribute that comes *)
(* twice, a length attribute after the packet, a packet attribute shorter  *)
(* than the length given before it, whose end nobody looks at, and a       *)
(* channel list that is refused, cannot be answered, or is asked for       *)
(* twice.                                                                  *)
VendorClean ==
  vd.pc = "back" =>
    /\ vd.pkt = 0
    /\ vd.lost > 0 => Twice(vd.all, Packets)
    /\ vd.over => After(vd.all, Packets, "long")
    /\ vd.past => \E i, j \in DOMAIN vd.all : i < j /\ vd.all[i] = "long" /\ vd.all[j] = "pkt"
    /\ vd.list => vd.ret \in {"EINVAL", "ENOMEM"}
    /\ vd.replies > 1 => Twice(vd.all, {"band"})
    /\ vd.replies > 0 /\ vd.ret # "ok" => vd.cmd = "GET_CHANNEL_LIST" /\ Len(vd.all) > 1
=============================================================================
