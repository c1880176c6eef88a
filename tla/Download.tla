------------------------------ MODULE Download ------------------------------
(***************************************************************************)
(* What the two drivers write into a chip to bring it up, as scripts: the  *)
(* loader (aic_load_fw) into the boot ROM of an 8800, D80 or D80X2, and    *)
(* the WLAN driver (aic8800_fdrv) into a running 8801, D81, D81X2 or DC.   *)
(* A script is the sequence of requests that a function sends, with what   *)
(* the function does when one fails.  The module Boot executes them.       *)
(*                                                                         *)
(* Addresses and data are left out: a table of register values is two      *)
(* writes (its first and its last entry), an image is a name that Boot     *)
(* sends block by block, and the values read from the chip that decide     *)
(* which branch is taken are the fields of the record c:                   *)
(*   chip  "8800", "D80", "X2" or "DC"      mode  the module parameter     *)
(*   rev   revision number                   sub   DC sub-revision         *)
(*   mcu   chip_mcu_id                       h     IS_CHIP_ID_H            *)
(*   adap  the adap_test parameter           set   the register read shows *)
(*   size  bytes of every image              that the optional part of the *)
(*                                           script applies                *)
(***************************************************************************)
EXTENDS Naturals, Sequences

(* What a failing step does: it ends the script with an error, or it skips *)
(* that many of the steps that follow (none: the result is not looked at). *)
Stops == 1000
Step(op, what, n) == <<[op |-> op, what |-> what, n |-> n, onfail |-> Stops]>>

Read(reg) == Step("read", reg, 1)
Write(reg) == Step("write", reg, 1)
Block(img) == Step("write", img, 1)
Request(req) == Step("write", req, 1)
Poll(reg) == Step("poll", reg, 1)
Upload(file) == Step("file", file, 1)
SendArray(img) == Step("array", img, 1)
Start(app) == Step("start", app, 1)
ReturnsError == Step("fail", "return", 1)
TableTaken == Step("take", "table", 1)
TableFreed == Step("free", "table", 1)

(* The functions that never look at the result of a request, *)
Loosely(s) == [i \in DOMAIN s |-> [s[i] EXCEPT !.onfail = 0]]
(* that return nothing, and give up at the first failure,                  *)
Silently(s) ==
  [i \in DOMAIN s |-> [s[i] EXCEPT !.onfail = IF @ = Stops THEN Len(s) - i ELSE @]]
(* and that return the result of the last request only.                    *)
LastCounts(s) ==
  [i \in DOMAIN s |-> [s[i] EXCEPT !.onfail = IF i = Len(s) THEN @ ELSE 0]]
If(c, s) == IF c THEN s ELSE <<>>
Table(t) == Step("write", t, 1) \o Step("write", t, 2)

U01 == 1
U02 == 3
U03 == 7
U05 == 15
Normal == "normal"
RfTest == "rftest"
BleScan == "ble_scan"
AdFilter == "ble_ad_filter"

-----------------------------------------------------------------------------
(* The loader, 8800. *)
syscfg_tbl_pmic_u02 == Table("syscfg_tbl_pmic_u02")
syscfg_tbl_u04 == Table("syscfg_tbl_u04")
syscfg_tbl == Table("syscfg_tbl")
system_config_8800(c) ==
  Read("chip_id") \o Read("chip_sub_id")
  \o If(c.rev = U02, syscfg_tbl_pmic_u02)
  \o If(c.rev = U03 /\ c.set, syscfg_tbl_u04)
  \o syscfg_tbl

sys_reboot_tbl == Table("sys_reboot_tbl")
system_reboot == sys_reboot_tbl
rf_config == Write("rf_tbl_masked")

(* Every failure is logged and forgotten except that of the last write.    *)
patch_tbl == Table("patch_tbl")
adaptivity_patch_tbl == Table("adaptivity_patch_tbl")
patch_config(c) ==
  LastCounts(Read("patch_addr") \o Write("patch_start") \o Write("patch_num")
             \o patch_tbl \o If(c.adap, adaptivity_patch_tbl))

(* The images of the Bluetooth controller, and their patch table: the      *)
(* table's file must be there, the result of writing it is not looked at.  *)
aicbt_patch_table_load == Table("bt_patch_table") \o TableFreed
rwnx_plat_bin_fw_patch_table_upload_android(file) ==
  Step("parse", file, 1) \o TableTaken \o Silently(aicbt_patch_table_load)

BtImages8800(c) ==
  IF c.rev = U03 THEN Upload("adid_u03") \o Upload("patch_u03")
  ELSE Upload("adid") \o Upload("patch")
NormalImages8800(c) == Upload("fmacfw") \o BtImages8800(c)
RfTestImages8800(c) == Upload("fmacfw_rf") \o BtImages8800(c)

(* Both wake-up modes start whatever has been written and then fail, so    *)
(* that the probe frees everything.                                        *)
BleScan8800 ==
  Loosely(Upload("fw_ble_scan") \o Write("magic_num") \o Write("reboot_time")
          \o Table("paring_ids"))
  \o Loosely(Start("ble")) \o ReturnsError
AdFilter8800 ==
  Loosely(Upload("fw_ble_scan_ad_filter") \o Table("wakeup_param"))
  \o Loosely(Start("ble")) \o ReturnsError

aicfw_download_fw_8800(c) ==
  IF c.mode = BleScan THEN BleScan8800
  ELSE IF c.mode = AdFilter THEN AdFilter8800
  ELSE (IF c.mode = RfTest THEN RfTestImages8800(c) ELSE NormalImages8800(c))
       \o rwnx_plat_bin_fw_patch_table_upload_android("patch_table")
       \o patch_config(c) \o rf_config \o Start("wlan")

-----------------------------------------------------------------------------
(* The loader, D80. *)
syscfg_tbl_8800d80 == Table("syscfg_tbl_8800d80")
system_config_8800d80 ==
  Read("chip_id") \o syscfg_tbl_8800d80 \o Write("syscfg_tbl_masked_8800d80")

PatchHeader == Write("magic_num") \o Write("magic_num_2") \o Write("pair_start")
               \o Write("pair_count")
PatchBlockSizes == Table("block_size_01") \o Table("block_size_23")
patch_tbl_d80 == Table("patch_tbl_d80")
adaptivity_patch_tbl_d80 == Table("adaptivity_patch_tbl_d80")
aicwf_patch_config_8800d80(c) ==
  Read("config_base") \o Read("patch_str_base") \o Read("version")
  \o If(c.set, Read("patch_buff_base"))
  \o PatchHeader \o patch_tbl_d80 \o If(c.adap, adaptivity_patch_tbl_d80)
  \o PatchBlockSizes

NormalD80(c) ==
  IF c.rev = U01 THEN Upload("fmacfw_u01") \o Start("wlan")
  ELSE Upload(IF c.h THEN "fmacfw_h" ELSE "fmacfw")
       \o aicwf_patch_config_8800d80(c) \o Start("wlan")
RfTestD80(c) ==
  Upload(IF c.rev = U01 THEN "fmacfw_rf_u01" ELSE "fmacfw_rf") \o Start("wlan")
AdFilterD80 ==
  Loosely(Upload("fw_ble_scan_ad_filter") \o Table("wakeup_param"))
  \o Loosely(Start("ble")) \o ReturnsError
aicfw_download_fw_8800d80(c) ==
  CASE c.mode = Normal -> NormalD80(c)
    [] c.mode = RfTest -> RfTestD80(c)
    [] c.mode = AdFilter -> AdFilterD80
    [] OTHER -> <<>>

-----------------------------------------------------------------------------
(* The loader, D80X2. *)
syscfg_tbl_8800d80x2 == Table("syscfg_tbl_8800d80x2")
system_config_8800d80x2 ==
  Read("chip_id") \o Read("chip_mcu_id")
  \o syscfg_tbl_8800d80x2 \o Write("syscfg_tbl_masked_8800d80x2")

patch_tbl_d80x2 == Table("patch_tbl_d80x2")
adaptivity_patch_tbl_d80x2 == Table("adaptivity_patch_tbl_d80x2")
aicwf_patch_config_8800d80x2(c) ==
  Read("patch_addr") \o Read("config_base") \o Read("patch_str_base")
  \o Read("version") \o Read("patch_buff_base")
  \o PatchHeader \o patch_tbl_d80x2 \o If(c.adap, adaptivity_patch_tbl_d80x2)
  \o PatchBlockSizes

aicbt_patch_table_alloc == Step("parse", "patch_table", 1) \o TableTaken
aicbt_patch_info_unpack == Step("parse", "patch_info", 1)
aicbt_ext_patch_data_load(c) ==
  If(c.set, Write("ext_patch_on") \o Upload("patch_ext1") \o Upload("patch_ext2"))

BtImagesX2(c) ==
  (IF c.rev < U05 THEN Upload("adid_u03") \o Upload("patch_u03")
   ELSE Upload("adid_u05") \o Upload("patch_u05"))
  \o aicbt_ext_patch_data_load(c) \o aicbt_patch_table_load
NormalX2(c) ==
  BtImagesX2(c) \o Upload("fmacfw") \o aicwf_patch_config_8800d80x2(c) \o Start("wlan")
RfTestX2(c) == BtImagesX2(c) \o Upload("fmacfw_rf") \o Start("wlan")
(* The patch table taken at the start is never freed in this mode. *)
AdFilterX2 ==
  Loosely(Upload("fw_ble_scan_ad_filter") \o Table("wakeup_param")
          \o Write("boot_addr") \o Write("boot"))
  \o ReturnsError
(* The power domain of the second processor is switched on and polled. *)
McuPower(c) ==
  Read("power_state")
  \o If(~c.set, Read("power_ctrl") \o Write("power_ctrl") \o Poll("power_state"))
aicfw_download_fw_8800d80x2(c) ==
  aicbt_patch_table_alloc \o aicbt_patch_info_unpack
  \o If(c.mcu, McuPower(c))
  \o CASE c.mode = Normal -> NormalX2(c)
       [] c.mode = RfTest -> RfTestX2(c)
       [] c.mode = AdFilter -> AdFilterX2
       [] OTHER -> <<>>

-----------------------------------------------------------------------------
(* The loader's choice by chip, as probe calls it. *)
system_config(c) ==
  CASE c.chip = "8800" -> system_config_8800(c)
    [] c.chip = "D80" -> system_config_8800d80
    [] c.chip = "X2" -> system_config_8800d80x2
    [] OTHER -> ReturnsError
aicfw_download_fw(c) ==
  CASE c.chip = "8800" -> aicfw_download_fw_8800(c)
    [] c.chip = "D80" -> aicfw_download_fw_8800d80(c)
    [] c.chip = "X2" -> aicfw_download_fw_8800d80x2(c)
    [] OTHER -> ReturnsError
rwnx_send_reboot == Write("reboot")

-----------------------------------------------------------------------------
(* The WLAN driver, 8801. *)
fdrv_system_config_8800(c) ==
  Silently(Read("chip_id") \o Read("chip_sub_id")
           \o If(c.rev = U02, syscfg_tbl_pmic_u02)
           \o If(c.rev = U03 /\ c.set, syscfg_tbl_u04)
           \o syscfg_tbl \o Write("syscfg_tbl_masked"))

(* The WLAN driver, DC and DW: the chip runs from its ROM, patched here. *)
usbcfg_tbl == Table("usbcfg_tbl")
aicwf_usb_config(c) == Silently(Read("usb_version") \o If(c.set, usbcfg_tbl))
set_bbpll_config(c) ==
  Read("bbpll_mode") \o If(c.set, Read("bbpll") \o Loosely(Write("bbpll")))
syscfg_tbl_8800dc == Table("syscfg_tbl_8800dc")
syscfg_tbl_masked_8800dc == Table("syscfg_tbl_masked_8800dc")
syscfg_tbl_masked_8800dc_h == Table("syscfg_tbl_masked_8800dc_h")
syscfg_tbl_masked_8800dc_u01 == Table("syscfg_tbl_masked_8800dc_u01")
system_config_8800dc(c) ==
  Silently(Read("chip_id") \o If(c.mcu, Read("cache") \o Write("cache"))
           \o Read("chip_sub_id") \o set_bbpll_config(c) \o Read("clock")
           \o syscfg_tbl_8800dc
           \o (IF c.h THEN syscfg_tbl_masked_8800dc_h ELSE syscfg_tbl_masked_8800dc)
           \o If(c.sub = 0, syscfg_tbl_masked_8800dc_u01))

aicwf_plat_patch_load_8800dc(c) ==
  Upload(CASE c.sub = 0 -> "fmacfw_patch" [] c.sub = 1 -> "fmacfw_patch_u02"
           [] OTHER -> "fmacfw_patch_h_u02")
aicwf_plat_rftest_load_8800dc == Upload("lmacfw_rf")
aicwf_plat_calib_load_8800dc(c) ==
  Upload(IF c.sub = 1 THEN "fmacfw_calib" ELSE "fmacfw_calib_h")

(* The description block, then the pairs: each result overwrites the one   *)
(* before it.                                                              *)
aicwf_patch_table_load(file) ==
  Step("parse", file, 1) \o Block("describe") \o LastCounts(Table("mac_patch_tbl"))
aicwf_patch_var_config_8800dc(c) ==
  If(c.sub = 2, Read("var_magic") \o If(c.set, Read("ext_flags")))

patch_tbl_wifisetting == Table("patch_tbl_wifisetting")
ldpc_cfg_ram == SendArray("ldpc_cfg_ram")
agc_cfg_ram == SendArray("agc_cfg_ram")
txgain_map == Block("txgain_map")
txgain_map_h == Block("txgain_map_h")
jump_tbl == Table("jump_tbl")
patch_tbl_func == Table("patch_tbl_func")
patch_tbl_rf_func == Table("patch_tbl_rf_func")
PatchBySub(c) ==
  CASE c.sub = 0 -> Loosely(jump_tbl \o patch_tbl_func)
    [] c.sub = 1 -> Silently(aicwf_patch_table_load("mac_patch_table_u02"))
    [] OTHER -> Silently(aicwf_patch_table_load("mac_patch_table_h_u02"))
                \o Silently(aicwf_patch_var_config_8800dc(c))
(* Returns nothing; every result is logged and forgotten. *)
aicwf_patch_config_8800dc(c) ==
  IF c.mode = Normal
  THEN Loosely(Read("wifisetting_cfg") \o If(c.sub = 0, Read("jump_tbl_addr"))
               \o Read("ldpc_cfg") \o Read("agc_cfg") \o Read("txgain_cfg")
               \o patch_tbl_wifisetting \o If(c.adap, adaptivity_patch_tbl)
               \o ldpc_cfg_ram \o agc_cfg_ram
               \o (IF c.h THEN txgain_map_h ELSE txgain_map))
       \o PatchBySub(c)
  ELSE If(c.sub = 0, Loosely(patch_tbl_rf_func))

(* A chip whose stored calibration is found valid is not calibrated again. *)
aicwf_misc_ram_valid_check_8800dc(c) ==
  IF c.mode = RfTest
  THEN Read("vect1")
       \o If(c.set, Read("vect2") \o Read("misc_ram_addr") \o Read("bit_mask"))
  ELSE Read("boot_argc") \o If(~c.set /\ c.mcu, Read("flash_size") \o Read("dpd_info"))
       \o If(~c.set /\ ~c.mcu, Read("misc_ram_addr") \o Read("bit_mask"))
DpdValid(c) == c.set
aicwf_dpd_calib_8800dc(c) ==
  aicwf_misc_ram_valid_check_8800dc(c)
  \o If(~DpdValid(c),
        aicwf_plat_calib_load_8800dc(c) \o Start("calib")
        \o Read("misc_ram_addr") \o Read("bit_mask") \o Read("dpd_high") \o Read("loft_res"))
aicwf_dpd_result_apply_8800dc ==
  Read("misc_ram_addr") \o Block("bit_mask") \o Block("dpd_high") \o Block("loft_res")

rwnx_plat_patch_load(c) ==
  IF c.mode = Normal
  THEN aicwf_plat_patch_load_8800dc(c) \o aicwf_patch_config_8800dc(c)
       \o If(c.sub # 0, aicwf_dpd_calib_8800dc(c))
  ELSE If(c.sub # 0, aicwf_plat_patch_load_8800dc(c) \o aicwf_dpd_calib_8800dc(c))
       \o aicwf_plat_rftest_load_8800dc
(* The user configuration that follows is optional and cannot fail. *)
rwnx_platform_on(c) == rwnx_plat_patch_load(c)
wdt_config == Write("wdt_tbl_masked")
start_from_bootrom == Read("bootrom") \o Start("wlan")

rwnx_ic_system_init(c) ==
  CASE c.chip = "8800" -> fdrv_system_config_8800(c)
    [] c.chip = "DC" ->
         aicwf_usb_config(c) \o system_config_8800dc(c) \o rwnx_platform_on(c)
         \o If(c.sub < 2, wdt_config) \o start_from_bootrom
    [] OTHER -> <<>>

(* The radio. *)
wifi_txgain_table_24g_8800dcdw == Request("rf_config_txgain") \o Request("rf_config_txgain_1")
wifi_txgain_table_24g_8800dcdw_h ==
  Request("rf_config_txgain_h") \o Request("rf_config_txgain_1_h")
wifi_rxgain_table_24g_8800dcdw == Request("rf_config_rxgain_20m") \o Request("rf_config_rxgain_40m")
aicwf_set_rf_config_8800dc(c) ==
  Request("txpwr_lvl") \o Request("txpwr_ofst")
  \o If(c.mode = Normal,
        (IF c.h THEN wifi_txgain_table_24g_8800dcdw_h ELSE wifi_txgain_table_24g_8800dcdw)
        \o wifi_rxgain_table_24g_8800dcdw \o Request("rf_calib")
        \o If(c.sub >= 1, If(~DpdValid(c), aicwf_dpd_result_apply_8800dc)
                          \o Request("rf_calib")))
aicwf_set_rf_config_8800d80 ==
  Request("txpwr_lvl_v3") \o Request("txpwr_lvl_adj") \o Request("txpwr_ofst2x")
  \o Request("rf_calib")
aicwf_set_rf_config_8800d80x2 ==
  Request("txpwr_lvl_v4") \o Request("txpwr_lvl_adj") \o Request("txpwr_ofst2x_v2")
  \o Request("rf_calib")
rwnx_ic_rf_init(c) ==
  CASE c.chip = "8800" -> Request("txpwr_idx") \o Request("txpwr_ofst")
                          \o If(c.mode = Normal, Request("rf_calib"))
    [] c.chip = "DC" -> aicwf_set_rf_config_8800dc(c)
    [] c.chip = "D80" -> aicwf_set_rf_config_8800d80
    [] OTHER -> aicwf_set_rf_config_8800d80x2

(* All the requests of rwnx_cfg80211_init, in order.  The version of the   *)
(* firmware and the two that configure the MAC layer are sent without      *)
(* looking at the result; the last one once the wiphy is registered.       *)
BeforeRegister(c) ==
  rwnx_ic_system_init(c)
  \o Request("set_stack_start") \o Loosely(Request("get_fw_version"))
  \o rwnx_ic_rf_init(c) \o Request("get_macaddr") \o Request("reset") \o Request("version")
  \o If(c.chip = "8800" \/ c.mode = Normal, Loosely(Request("me_config")))
AfterRegister(c) ==
  If(c.chip = "8800" \/ c.mode = Normal, Loosely(Request("me_chan_config")))
=============================================================================
