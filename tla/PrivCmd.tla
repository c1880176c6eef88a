------------------------------ MODULE PrivCmd ------------------------------
(***************************************************************************)
(* The private ioctl (android_priv_cmd of aic_priv_cmd.c), through which   *)
(* the tools for tests and calibration talk to the firmware: the handlers  *)
(* with the arguments they look at, the requests they send and the reply   *)
(* they copy, and the way the reply goes back.                             *)
(*                                                                         *)
(* A line of input k is its number of words (argc), the number its first   *)
(* argument spells (func), the number its second spells (cnt), the chip it *)
(* goes to and the interface it comes by; the values of the others only    *)
(* travel to the firmware.  All handlers but one share one confirmation    *)
(* buffer, the global variable cfm; the kernel runs one ioctl at a time.   *)
(***************************************************************************)
EXTENDS Integers, Sequences

CONSTANTS
  Lines,       \* the lines of input tried: records argc, func, cnt, chip, iface
  Lengths,     \* total_len of the caller's buffer
  PrivScenes   \* as bounds: how many ioctls, how many requests fail

VARIABLES
  io,     \* the ioctl: pc, command, line, total_len, the handler's outcome,
          \* requests sent, bytes_written, whether a request of it has failed
  cfm,    \* which ioctl's answer the global cfm holds
  kleft   \* what the bounds leave
privVars == <<io, cfm, kleft>>

Quad == {"D81", "X2"}       \* AIC8800D81; AIC8800D81X2 and D89X2
Dual == {"DC"}              \* AIC8800DC and DW; the remaining chip is "8801"

(* What a handler does: the highest word of the line it reads, the         *)
(* requests with whether the answer is put into cfm, and either -EINVAL or *)
(* the bytes of reply.                                                     *)
Says(needs, reqs, out) == [err |-> FALSE, needs |-> needs, reqs |-> reqs, out |-> out]
Wrong(needs) == [err |-> TRUE, needs |-> needs, reqs |-> <<>>, out |-> 0]
Ask(id) == <<[id |-> id, kept |-> TRUE]>>
Tell(id) == <<[id |-> id, kept |-> FALSE]>>
FirstWord(k) == IF k.argc > 1 THEN 1 ELSE 0
(* Reads without an argument or with 0, writes up to top when more than    *)
(* least words are there.                                                  *)
ReadWrite(k, id, top, least, out) ==
  IF k.argc <= 1 \/ k.func = 0 THEN Says(FirstWord(k), Ask(id), out)
  ELSE IF k.func <= top /\ k.argc > least THEN Says(least, Ask(id), out)
  ELSE Wrong(1)
AtLeast(k, n, r) == IF k.argc < n THEN Wrong(0) ELSE r

aic_priv_cmd_set_tx(k) ==
  IF k.argc < 6 \/ (k.argc > 7 /\ k.chip = "8801") THEN Wrong(IF k.argc < 6 THEN 0 ELSE 6)
  ELSE Says(IF k.argc > 7 THEN 7 ELSE k.argc - 1,
            (IF k.argc > 7 /\ k.func # 255 THEN Ask("RDWR_PWRLVL") ELSE <<>>) \o Tell("SET_TX"), 0)
aic_priv_cmd_set_txstop(k) == Says(0, Tell("SET_TXSTOP"), 0)
aic_priv_cmd_set_rx(k) == AtLeast(k, 3, Says(2, Tell("SET_RX"), 0))
aic_priv_cmd_get_rx_result(k) == Says(0, Ask("GET_RX_RESULT"), 8)
aic_priv_cmd_set_rxstop(k) == Says(0, Tell("SET_RXSTOP"), 0)
aic_priv_cmd_set_tx_tone(k) ==
  IF k.argc \in {2, 3} THEN Says(k.argc - 1, Tell("SET_TXTONE"), 0) ELSE Wrong(0)
aic_priv_cmd_set_rx_meter(k) == Says(1, Tell("SET_RX_METER"), 0)
aic_priv_cmd_set_set_power(k) ==
  LET top == IF k.chip = "8801" THEN 15 ELSE 30
      needs == IF k.chip = "8801" THEN 2 ELSE 1
  IN IF k.func > top THEN Wrong(needs) ELSE Says(needs, Tell("SET_POWER"), 0)
aic_priv_cmd_set_xtal_cap(k) == AtLeast(k, 2, Says(1, Ask("SET_XTAL_CAP"), 4))
aic_priv_cmd_set_xtal_cap_fine(k) == AtLeast(k, 2, Says(1, Ask("SET_XTAL_CAP_FINE"), 4))
aic_priv_cmd_get_efuse_block(k) == AtLeast(k, 2, Says(1, Ask("GET_EFUSE_BLOCK"), 4))
aic_priv_cmd_set_freq_cal(k) == AtLeast(k, 2, Says(1, Ask("SET_FREQ_CAL"), 4))
aic_priv_cmd_set_freq_cal_fine(k) == AtLeast(k, 2, Says(1, Ask("SET_FREQ_CAL_FINE"), 4))
aic_priv_cmd_get_freq_cal(k) == Says(0, Ask("GET_FREQ_CAL"), 4)
aic_priv_cmd_set_mac_addr(k) == AtLeast(k, 7, Says(6, Tell("SET_MAC_ADDR"), 0))
aic_priv_cmd_get_mac_addr(k) == Says(0, Ask("GET_MAC_ADDR"), 8)
aic_priv_cmd_set_bt_mac_addr(k) == AtLeast(k, 7, Says(6, Tell("SET_BT_MAC_ADDR"), 0))
aic_priv_cmd_get_bt_mac_addr(k) == Says(0, Ask("GET_BT_MAC_ADDR"), 8)
aic_priv_cmd_set_vendor_info(k) == Says(1, Ask("SET_VENDOR_INFO"), IF k.chip \in Dual THEN 2 ELSE 1)
aic_priv_cmd_get_vendor_info(k) == Says(0, Ask("GET_VENDOR_INFO"), IF k.chip \in Dual THEN 2 ELSE 1)
aic_priv_cmd_rdwr_pwrmm(k) == Says(FirstWord(k), Ask("RDWR_PWRMM"), 4)
aic_priv_cmd_rdwr_pwridx(k) ==
  IF k.chip # "8801" THEN Wrong(0) ELSE ReadWrite(k, "RDWR_PWRIDX", 2, 3, 9)
(* With more than 12 words a whole group is set: 10 values for group 1,    *)
(* else 12, from the fourth word on.                                       *)
aic_priv_cmd_rdwr_pwrlvl(k) ==
  LET out == IF k.chip \in Quad THEN 72 ELSE 36 IN
  IF k.chip = "8801" THEN Wrong(0)
  ELSE IF k.func \in 1..2 /\ k.argc > 12
       THEN Says(IF k.cnt = 1 THEN 12 ELSE 14, Ask("RDWR_PWRLVL"), out)
       ELSE ReadWrite(k, "RDWR_PWRLVL", 2, 4, out)
Least(k) == IF k.chip \in Quad THEN 4 ELSE 3
aic_priv_cmd_rdwr_pwrofst(k) ==
  ReadWrite(k, "RDWR_PWROFST", 4, Least(k),
            CASE k.chip = "DC" -> 3 [] k.chip = "D81" -> 27 [] k.chip = "X2" -> 54 [] OTHER -> 7)
aic_priv_cmd_rdwr_pwrofstfine(k) == ReadWrite(k, "RDWR_PWROFSTFINE", 2, 3, 7)
aic_priv_cmd_rdwr_drvibit(k) == ReadWrite(k, "RDWR_DRVIBIT", 1, 2, 16)
aic_priv_cmd_rdwr_efuse_pwrofst(k) ==
  ReadWrite(k, "RDWR_EFUSE_PWROFST", 4, Least(k),
            CASE k.chip = "DC" -> 6 [] k.chip = "D81" -> 54 [] k.chip = "X2" -> 108 [] OTHER -> 7)
aic_priv_cmd_rdwr_efuse_pwrofstfine(k) == ReadWrite(k, "RDWR_EFUSE_PWROFSTFINE", 2, 3, 7)
aic_priv_cmd_rdwr_efuse_drvibit(k) == ReadWrite(k, "RDWR_EFUSE_DRVIBIT", 1, 2, 4)
aic_priv_cmd_rdwr_efuse_usrdata(k) ==
  Says(IF k.argc <= 1 THEN 0 ELSE IF k.func = 1 THEN 2 + k.cnt ELSE 2, Ask("RDWR_EFUSE_USRDATA"), 12)
aic_priv_cmd_rdwr_efuse_sdiocfg(k) == ReadWrite(k, "RDWR_EFUSE_SDIOCFG", 1, 2, 4)
aic_priv_cmd_rdwr_efuse_usbvidpid(k) == ReadWrite(k, "RDWR_EFUSE_USBVIDPID", 1, 2, 4)
aic_priv_cmd_rdwr_efuse_he_off(k) ==
  IF k.func \in 0..1 THEN Says(1, Ask("RDWR_EFUSE_HE_OFF"), 4) ELSE Says(1, <<>>, 0)
aic_priv_cmd_set_cal_xtal(k) == Says(0, Tell("SET_CAL_XTAL"), 0)
aic_priv_cmd_get_cal_xtal_res(k) == Says(0, Ask("GET_CAL_XTAL_RES"), 4)
aic_priv_cmd_set_cob_cal(k) == AtLeast(k, 3, Says(3, Tell("SET_COB_CAL"), 0))
(* The firmware says in the answer whether it has a result. *)
aic_priv_cmd_get_cob_cal_res(k) == Says(0, Ask("GET_COB_CAL_RES"), 16)
aic_priv_cmd_do_cob_test(k) == Says(FirstWord(k), Tell("SET_COB_CAL") \o Ask("GET_COB_CAL_RES"), 16)
aic_priv_cmd_set_papr(k) == AtLeast(k, 2, Says(1, Tell("SET_PAPR"), 0))
aic_priv_cmd_set_notch(k) == AtLeast(k, 2, Says(1, Tell("SET_NOTCH"), 0))
aic_priv_cmd_set_srrc(k) == AtLeast(k, 2, Says(1, Tell("SET_SRRC"), 0))
aic_priv_cmd_set_fss(k) == AtLeast(k, 2, Says(1, Tell("SET_FSS"), 0))
aic_priv_cmd_set_usb_off(k) == Says(0, Tell("SET_USB_OFF"), 0)
aic_priv_cmd_set_pll_test(k) ==
  LET needs == IF k.argc > 3 THEN 3 ELSE FirstWord(k)
  IN IF k.argc > 1 /\ k.func > 1 THEN Wrong(needs) ELSE Says(needs, Ask("SET_PLL_TEST"), 0)
aic_priv_cmd_set_ant_mode(k) == AtLeast(k, 2, Says(1, Tell("SET_ANT_MODE"), 0))
aic_priv_cmd_rdwr_bt_efuse_pwrofst(k) ==
  IF k.argc = 2 /\ k.func > 7 THEN Wrong(1)
  ELSE Says(IF k.argc = 2 THEN 1 ELSE 0, Ask("RDWR_BT_EFUSE_PWROFST"), 2)
aic_priv_cmd_exec_flash_oper(k) == AtLeast(k, 2, Says(1, Ask("EXEC_FLASH_OPER"), 0))
aic_priv_cmd_country_set(k) == AtLeast(k, 2, Says(1, <<>>, 0))
aic_priv_cmd_get_noise(k) == Says(0, Ask("GET_NOISE"), 2)
PowerAdd(k, id, out) ==
  LET needs == IF k.func > 0 /\ k.argc > 2 THEN 2 ELSE FirstWord(k) IN
  IF k.chip # "D81" THEN Wrong(0)
  ELSE IF k.argc > 1 /\ (k.func > 2 \/ (k.func > 0 /\ k.cnt > 15)) THEN Wrong(needs)
  ELSE Says(needs, Ask(id), out)
aic_priv_cmd_rdwr_pwradd2x(k) == PowerAdd(k, "RDWR_PWRADD2X", 2)
aic_priv_cmd_rdwr_efuse_pwradd2x(k) == PowerAdd(k, "RDWR_EFUSE_PWRADD2X", 3)
aic_priv_cmd_check_flash(k) == Says(0, Ask("CHECK_FLASH"), 8)
aic_priv_cmd_help(k) == Says(0, <<>>, 0)

(* The commands that android_priv_cmd looks for itself.  get_cs_info: a    *)
(* monitor is refused; without a station an access point takes its own     *)
(* broadcast station, and others answer nothing.  The answer is put into a *)
(* variable of rwnx_fill_station_info, not into cfm.                       *)
GetCsInfo(k) ==
  CASE k.iface = "monitor" -> Wrong(0)
    [] k.iface = "alone"   -> Says(0, <<>>, 0)
    [] OTHER               -> Says(0, Tell("MM_GET_STA_INFO"), 60)
(* It goes wrong in two ways: -EINVAL becomes the length of a memcpy, and  *)
(* an access point that is not started has the channel context 255.        *)
CsInfoBreaks(k) == k.iface \in {"monitor", "idle_ap"}
SetTestmode(k) == Says(0, IF k.chip = "8801" THEN <<>> ELSE Tell("REBOOT"), 0)
SetBleWake(k) == Says(0, Tell("REBOOT"), 0)
SetCountry(k) == Says(0, <<>>, 0)

aic_priv_commands(k) ==
  [set_tx |-> aic_priv_cmd_set_tx(k), set_txstop |-> aic_priv_cmd_set_txstop(k),
   set_rx |-> aic_priv_cmd_set_rx(k), get_rx_result |-> aic_priv_cmd_get_rx_result(k),
   set_rxstop |-> aic_priv_cmd_set_rxstop(k), set_txtone |-> aic_priv_cmd_set_tx_tone(k),
   set_rx_meter |-> aic_priv_cmd_set_rx_meter(k), set_power |-> aic_priv_cmd_set_set_power(k),
   set_xtal_cap |-> aic_priv_cmd_set_xtal_cap(k), set_xtal_cap_fine |-> aic_priv_cmd_set_xtal_cap_fine(k),
   get_efuse_block |-> aic_priv_cmd_get_efuse_block(k), set_freq_cal |-> aic_priv_cmd_set_freq_cal(k),
   set_freq_cal_fine |-> aic_priv_cmd_set_freq_cal_fine(k), get_freq_cal |-> aic_priv_cmd_get_freq_cal(k),
   set_mac_addr |-> aic_priv_cmd_set_mac_addr(k), get_mac_addr |-> aic_priv_cmd_get_mac_addr(k),
   set_bt_mac_addr |-> aic_priv_cmd_set_bt_mac_addr(k), get_bt_mac_addr |-> aic_priv_cmd_get_bt_mac_addr(k),
   set_vendor_info |-> aic_priv_cmd_set_vendor_info(k), get_vendor_info |-> aic_priv_cmd_get_vendor_info(k),
   rdwr_pwrmm |-> aic_priv_cmd_rdwr_pwrmm(k), rdwr_pwridx |-> aic_priv_cmd_rdwr_pwridx(k),
   rdwr_pwrlvl |-> aic_priv_cmd_rdwr_pwrlvl(k), rdwr_pwrofst |-> aic_priv_cmd_rdwr_pwrofst(k),
   rdwr_pwrofstfine |-> aic_priv_cmd_rdwr_pwrofstfine(k), rdwr_drvibit |-> aic_priv_cmd_rdwr_drvibit(k),
   set_cal_xtal |-> aic_priv_cmd_set_cal_xtal(k), get_cal_xtal_res |-> aic_priv_cmd_get_cal_xtal_res(k),
   set_cob_cal |-> aic_priv_cmd_set_cob_cal(k), get_cob_cal_res |-> aic_priv_cmd_get_cob_cal_res(k),
   do_cob_test |-> aic_priv_cmd_do_cob_test(k), rdwr_efuse_pwrofst |-> aic_priv_cmd_rdwr_efuse_pwrofst(k),
   rdwr_efuse_pwrofstfine |-> aic_priv_cmd_rdwr_efuse_pwrofstfine(k),
   rdwr_efuse_drvibit |-> aic_priv_cmd_rdwr_efuse_drvibit(k),
   rdwr_efuse_usrdata |-> aic_priv_cmd_rdwr_efuse_usrdata(k),
   rdwr_efuse_sdiocfg |-> aic_priv_cmd_rdwr_efuse_sdiocfg(k),
   rdwr_efuse_usbvidpid |-> aic_priv_cmd_rdwr_efuse_usbvidpid(k),
   rdwr_efuse_he_off |-> aic_priv_cmd_rdwr_efuse_he_off(k), set_papr |-> aic_priv_cmd_set_papr(k),
   set_notch |-> aic_priv_cmd_set_notch(k), set_srrc |-> aic_priv_cmd_set_srrc(k),
   set_fss |-> aic_priv_cmd_set_fss(k), set_usb_off |-> aic_priv_cmd_set_usb_off(k),
   set_pll_test |-> aic_priv_cmd_set_pll_test(k), set_ant |-> aic_priv_cmd_set_ant_mode(k),
   rdwr_bt_efuse_pwrofst |-> aic_priv_cmd_rdwr_bt_efuse_pwrofst(k),
   exec_flash_oper |-> aic_priv_cmd_exec_flash_oper(k), country_set |-> aic_priv_cmd_country_set(k),
   get_noise |-> aic_priv_cmd_get_noise(k), rdwr_pwradd2x |-> aic_priv_cmd_rdwr_pwradd2x(k),
   rdwr_efuse_pwradd2x |-> aic_priv_cmd_rdwr_efuse_pwradd2x(k), check_flash |-> aic_priv_cmd_check_flash(k),
   help |-> aic_priv_cmd_help(k), GET_CS_INFO |-> GetCsInfo(k), SET_TESTMODE |-> SetTestmode(k),
   SET_BLE_WAKE |-> SetBleWake(k), COUNTRY |-> SetCountry(k)]

-----------------------------------------------------------------------------
PrivIdle == [pc |-> "idle", name |-> "", iface |-> "", total |-> 0, does |-> Wrong(0), sent |-> 0, wrote |-> 0,
         failed |-> FALSE, stale |-> FALSE]
(* android_priv_cmd up to the handler.  A caller's structure or buffer     *)
(* that cannot be read, a length out of range and missing memory all go to *)
(* the exit with nothing written and, but for the unreadable buffer, with  *)
(* no command buffer.                                                      *)
android_priv_cmd ==
  /\ io.pc = "idle" /\ kleft.calls > 0
  /\ kleft' = [kleft EXCEPT !.calls = @ - 1]
  /\ \E k \in Lines, t \in Lengths : \E name \in DOMAIN aic_priv_commands(k) :
       LET d == aic_priv_commands(k)[name] IN
       io' = [PrivIdle EXCEPT !.pc = IF d.needs >= k.argc \/ (name = "GET_CS_INFO" /\ CsInfoBreaks(k))
                                     THEN "oops" ELSE "handler",
                              !.name = name, !.total = t, !.does = d, !.iface = k.iface]
  /\ UNCHANGED cfm
EarlyExit ==
  /\ io.pc = "idle" /\ kleft.calls > 0 /\ kleft.faults > 0
  /\ kleft' = [kleft EXCEPT !.calls = @ - 1, !.faults = @ - 1]
  /\ \E buf \in BOOLEAN, t \in Lengths \cup {-1} :
       io' = [PrivIdle EXCEPT !.pc = IF ~buf /\ t > 0 THEN "oops" ELSE "exit", !.total = t,
                          !.name = IF buf /\ t >= 0 THEN "unread" ELSE "refused"]
  /\ UNCHANGED cfm

(* rwnx_send_rftest_req: the handlers do not look at what it returns.      *)
SendRequest ==
  /\ io.pc = "handler" /\ io.sent < Len(io.does.reqs)
  /\ \/ /\ cfm' = IF io.does.reqs[io.sent + 1].kept THEN kleft.calls ELSE cfm
        /\ io' = [io EXCEPT !.sent = @ + 1]
        /\ UNCHANGED kleft
     \/ /\ kleft.faults > 0 /\ kleft' = [kleft EXCEPT !.faults = @ - 1]
        /\ io' = [io EXCEPT !.sent = @ + 1, !.failed = TRUE]
        /\ UNCHANGED cfm
(* Where the reply is copied from holds this ioctl's answer. *)
Answered == IF io.name = "GET_CS_INFO" THEN ~io.failed ELSE cfm = kleft.calls
(* A result that is not there yet makes two of them return -EINVAL. *)
Returns ==
  /\ io.pc = "handler" /\ io.sent = Len(io.does.reqs)
  /\ \E w \in {IF io.does.err THEN -22 ELSE io.does.out} \cup
              (IF io.name \in {"get_cob_cal_res", "do_cob_test"} THEN {-22} ELSE {}) :
       io' = [io EXCEPT !.pc = "exit", !.wrote = w, !.stale = w > 0 /\ ~Answered]
  /\ UNCHANGED <<cfm, kleft>>
\* mutant: a reply as long as the buffer but one is taken for one that does not fit
PrivExit_Tight ==
  /\ io.pc = "exit"
  /\ io' = [io EXCEPT !.pc = IF @ = "exit" /\ io.wrote >= 0 /\ io.wrote + 1 >= io.total THEN "exit" ELSE "back"]
  /\ UNCHANGED <<cfm, kleft>>

(* The label exit: a reply that does not fit goes back to the same label,  *)
(* where nothing has changed.                                              *)
PrivExit ==
  /\ io.pc = "exit"
  /\ io' = [io EXCEPT !.pc = IF io.wrote >= 0 /\ io.wrote >= io.total THEN "exit" ELSE "back"]
  /\ UNCHANGED <<cfm, kleft>>
PrivReturn ==
  /\ io.pc = "back"
  /\ io' = PrivIdle
  /\ UNCHANGED <<cfm, kleft>>

PrivInit == io = PrivIdle /\ cfm = -1 /\ kleft \in PrivScenes
PrivStep == SendRequest \/ Returns \/ PrivExit \/ PrivReturn
PrivNext == android_priv_cmd \/ EarlyExit \/ PrivStep
PrivFair == WF_privVars(PrivStep)

-----------------------------------------------------------------------------
(* The handlers that read a word of the line without asking whether it is  *)
(* there.                                                                  *)
Unchecked == {"set_rx_meter", "set_power", "set_vendor_info", "rdwr_efuse_he_off", "set_cob_cal",
              "rdwr_efuse_usrdata", "rdwr_pwrlvl"}
(* A handler never reads a word the line does not have, for any number of  *)
(* words, except the seven that do not check.  Besides these an ioctl      *)
(* oopses in three ways only: GET_CS_INFO on a monitor, GET_CS_INFO on an  *)
(* access point that is not started, and, refused before it has a command  *)
(* buffer, with a positive total_len, where the exit writes through NULL.  *)
(* No reply is longer than the caller's buffer with its terminator, or is  *)
(* another ioctl's or nobody's, unless a request of this one has failed,   *)
(* which the handler does not notice.                                      *)
PrivSafe ==
  /\ io.pc = "oops" => \/ io.name \in Unchecked
                       \/ io.name = "GET_CS_INFO" /\ io.iface \in {"monitor", "idle_ap"}
                       \/ io.name = "refused" /\ io.total > 0
  /\ io.pc = "back" => (io.wrote < 0 \/ io.wrote + 1 <= io.total) /\ (io.stale => io.failed)

(* Every ioctl whose handler refuses it, or whose reply is shorter than    *)
(* the caller's buffer, returns, whatever becomes of its requests.  One    *)
(* whose reply is not shorter, among them every one refused early with a   *)
(* length that is not positive, never does: it circles at the label exit.  *)
PrivReturns ==
  /\ [](io.pc = "handler" /\ (io.does.err \/ io.does.out < io.total) => <>(io.pc = "idle"))
  /\ [](io.pc = "exit" /\ io.wrote < io.total => <>(io.pc = "idle"))
=============================================================================
