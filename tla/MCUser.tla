------------------------------- MODULE MCUser -------------------------------
(* What a user of the driver reaches directly: private commands, the scan  *)
(* of the wireless extensions, vendor commands, module parameters and the  *)
(* regulatory data.  They share nothing; a behaviour exercises one.        *)
EXTENDS PrivCmd, WextScan, Vendor, ModParams

MCLines == {[argc |-> a, func |-> f, cnt |-> n, chip |-> c, iface |-> "joined"] :
              a \in {1, 2, 3, 4, 5, 7, 13}, f \in {0, 1, 5}, n \in {1, 16}, c \in {"8801", "DC", "D81", "X2"}}
           \cup {[argc |-> 1, func |-> 0, cnt |-> 1, chip |-> "D81", iface |-> i] : i \in {"monitor", "alone", "idle_ap"}}
NoPriv == [calls |-> 0, faults |-> 0]
MCPrivScenes == {NoPriv, [calls |-> 2, faults |-> 1]}

(* Networks with the longest elements that fit and with ones that do not,  *)
(* and rates at both ends of each table.                                   *)
Net(id, wpa, rsn, wps) == [id |-> id, ssid |-> 32, mode |-> "ess", wpa |-> wpa, rsn |-> rsn, wps |-> wps]
He == Net(1, 0, 252, 0) @@ [gen |-> "he", width |-> "w160"]
Ht == Net(2, 124, 124, 100) @@ [gen |-> "ht", mcs15 |-> TRUE, wide |-> FALSE, sgi |-> TRUE]
Vht == Net(3, 0, 24, 0) @@ [gen |-> "vht", band |-> "five", sgi |-> TRUE, map |-> 15]
Vht0 == Net(4, 24, 0, 0) @@ [gen |-> "vht", band |-> "two", sgi |-> FALSE, map |-> 0]
Huge == Net(5, 0, 257, 0) @@ [gen |-> "none"]
Both == Net(6, 125, 124, 257) @@ [gen |-> "none"]
MCNets == {He, Ht, Vht, Vht0, Huge, Both}
Wext(i, s, f, air) == [ioctls |-> i, scans |-> s, faults |-> f, air |-> air]
NoWext == Wext(0, 0, 0, {})
MCWextScenes == {NoWext, Wext(3, 1, 1, {He, Ht}), Wext(2, 2, 0, {He, Ht}), Wext(2, 1, 1, {Vht, Vht0}),
                 Wext(2, 0, 0, {Ht, Huge}), Wext(2, 0, 0, {Vht, Both})}

Attrs == {"id", "mac", "short", "long", "too_long", "pkt", "long_pkt", "ver", "band", "country", "level", "name"}
MCLists == {<<>>} \cup {<<a>> : a \in Attrs} \cup {<<a, b>> : a, b \in Attrs} \cup
           {<<l, "pkt", a>> : l \in {"short", "long"}, a \in Attrs}

AllOn == {"ht_on", "vht_on", "he_on", "ldpc_on", "stbc_on", "sgi", "sgi80", "use_2040", "use_80", "bfmee",
          "murx", "mutx", "custregd"}
Par(on, nss, plugs, countries) ==
  [on |-> on, mcs_map |-> 2, nss |-> nss, plugs |-> plugs, countries |-> countries]
NoPar == Par({}, 1, 0, 0)
MCParScenes == {NoPar, Par(AllOn, 2, 2, 0), Par(AllOn, 2, 1, 1), Par(AllOn, 1, 1, 0), Par(AllOn \cup {"custchan"}, 2, 2, 0)}
               \cup {Par(AllOn \ {p}, 2, 1, 0) : p \in AllOn}

MCInit ==
  /\ PrivInit /\ wext_init /\ aicwf_vendor_init /\ rwnx_mod_params
  /\ \/ wleft = NoWext /\ vleft = 0 /\ parleft = NoPar
     \/ kleft = NoPriv /\ vleft = 0 /\ parleft = NoPar
     \/ kleft = NoPriv /\ wleft = NoWext /\ parleft = NoPar
     \/ kleft = NoPriv /\ wleft = NoWext /\ vleft = 0
MCNext ==
  \/ PrivNext /\ UNCHANGED <<wextVars, vendorVars, parVars>>
  \/ WextNext /\ UNCHANGED <<privVars, vendorVars, parVars>>
  \/ VendorNext /\ UNCHANGED <<privVars, wextVars, parVars>>
  \/ ParNext /\ UNCHANGED <<privVars, wextVars, vendorVars>>
MCSpec == MCInit /\ [][MCNext]_<<privVars, wextVars, vendorVars, parVars>> /\ PrivFair /\ WextFair


(* Requests may fail and answers come late, and still every private        *)
(* command returns that fails or whose reply is shorter than the caller's  *)
(* buffer (android_priv_cmd; the others circle at its label exit), every   *)
(* ioctl that waits for a scan stops waiting (aicwf_set_scan), and every   *)
(* scan of cfg80211 ends (rwnx_rx_scanu_start_cfm, rwnx_close) unless its  *)
(* end went astray in one of the ways that WextOwned names.                *)
CommandsReturn == PrivReturns /\ WextEnds
=============================================================================
