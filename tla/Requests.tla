------------------------------ MODULE Requests ------------------------------
(***************************************************************************)
(* What each function of rwnx_msg_tx.c that builds a firmware request      *)
(* does: which messages it sends, which confirmation its caller then waits *)
(* for, and on which conditions it returns early.  The contents of the     *)
(* messages are left out.  The allocation can also fail before any of this *)
(* (every one of them then returns -ENOMEM), and the wait for the          *)
(* confirmation can; the modules that use the table add both.              *)
(*                                                                         *)
(* An outcome says what the call leaves behind: the messages handed to     *)
(* rwnx_send_msg in order, the value returned without sending, and whether *)
(* the allocated message is left over, neither sent nor freed.             *)
(***************************************************************************)
EXTENDS Naturals, Sequences

NoCfm == "none"

(* rwnx_send_msg(req, 1, cfm): the caller sleeps until cfm arrives. *)
Sends(req, cfm) ==
  [msgs |-> <<[req |-> req, cfm |-> cfm]>>, err |-> "OK", left |-> FALSE, defer |-> FALSE]
(* rwnx_send_msg(req, 0, 0): nobody waits. *)
Tells(req) == Sends(req, NoCfm)
(* Returns err; the message was not allocated or is freed. *)
Refuses(err) == [msgs |-> <<>>, err |-> err, left |-> FALSE, defer |-> FALSE]
(* Returns err and forgets the message it has allocated. *)
Leaves(err) == [Refuses(err) EXCEPT !.left = TRUE]
(* One function that sends the messages of two. *)
Both(a, b) == [b EXCEPT !.msgs = a.msgs \o b.msgs]

HwConfigPlain == {"ACS_TXOP_REQ", "CHANNEL_ACCESS_REQ", "MAC_TIMESCALE_REQ",
                  "CCA_THRESHOLD_REQ", "BWMODE_REQ", "CUSTOMIZED_FREQ_REQ"}
HwConfigX2 == (HwConfigPlain \ {"CUSTOMIZED_FREQ_REQ"}) \cup
              {"CHIP_TEMP_GET_REQ", "STBC_MCS_SET_REQ", "DCM_FORCE_EN_REQ", "NSS_1T2R_REQ"}
(* The ones that check the range of their parameters, and return 0 when    *)
(* they are out of it.                                                     *)
HwConfigX2Checked == {"MAX_AGG_TX_CNT_REQ", "MAX_BW_MCS_THRESH_SET_REQ",
                      "AUTO_CCA_EN_REQ", "ON_AIR_DUTY_CYCLE_REQ"}
SwConfig == {"BCN_CFG_REQ", "TEMP_COMP_SET_REQ", "TEMP_COMP_GET_REQ",
             "EXT_FLAGS_SET_REQ", "EXT_FLAGS_GET_REQ", "EXT_FLAGS_MASK_SET_REQ"}
SendsHwConfig(n) ==
  [Sends("MM_SET_VENDOR_HWCONFIG_REQ", "MM_SET_VENDOR_HWCONFIG_CFM") EXCEPT
     !.msgs = [i \in 1..n |-> @[1]]]

rwnx_send_reset == Sends("MM_RESET_REQ", "MM_RESET_CFM")
rwnx_send_start == Sends("MM_START_REQ", "MM_START_CFM")
rwnx_send_version_req == Sends("MM_VERSION_REQ", "MM_VERSION_CFM")
rwnx_send_add_if(iftype) ==
  IF iftype = "AP_VLAN" THEN Leaves("EPERM")
  ELSE Sends("MM_ADD_IF_REQ", "MM_ADD_IF_CFM")
rwnx_send_remove_if(defer) ==
  [Sends("MM_REMOVE_IF_REQ", "MM_REMOVE_IF_CFM") EXCEPT !.defer = defer]
rwnx_send_set_channel(phy_idx, phy_cnt) ==
  IF phy_idx >= phy_cnt THEN Refuses("ENOTSUPP")
  ELSE IF phy_idx = 0 THEN Leaves("OK")
  ELSE Sends("MM_SET_CHANNEL_REQ", "MM_SET_CHANNEL_CFM")
rwnx_send_key_add == Sends("MM_KEY_ADD_REQ", "MM_KEY_ADD_CFM")
rwnx_send_key_del == Sends("MM_KEY_DEL_REQ", "MM_KEY_DEL_CFM")
rwnx_send_bcn == Sends("APM_SET_BEACON_IE_REQ", "APM_SET_BEACON_IE_CFM")
rwnx_send_bcn_change == Sends("MM_BCN_CHANGE_REQ", "MM_BCN_CHANGE_CFM")
rwnx_send_roc == Sends("MM_REMAIN_ON_CHANNEL_REQ", "MM_REMAIN_ON_CHANNEL_CFM")
rwnx_send_cancel_roc ==
  Sends("MM_REMAIN_ON_CHANNEL_REQ", "MM_REMAIN_ON_CHANNEL_CFM")
rwnx_send_set_power == Sends("MM_SET_POWER_REQ", "MM_SET_POWER_CFM")
rwnx_send_set_edca == Sends("MM_SET_EDCA_REQ", "MM_SET_EDCA_CFM")
rwnx_send_arpoffload_en_req ==
  Sends("MM_SET_ARPOFFLOAD_REQ", "MM_SET_ARPOFFLOAD_CFM")
rwnx_send_disable_agg_req ==
  Sends("MM_SET_AGG_DISABLE_REQ", "MM_SET_AGG_DISABLE_CFM")
rwnx_send_coex_req == Sends("MM_SET_COEX_REQ", "MM_SET_COEX_CFM")
rwnx_send_rf_config_req ==
  Sends("MM_SET_RF_CONFIG_REQ", "MM_SET_RF_CONFIG_CFM")
rwnx_send_rf_calib_req == Sends("MM_SET_RF_CALIB_REQ", "MM_SET_RF_CALIB_CFM")
rwnx_send_get_macaddr_req ==
  Sends("MM_GET_MAC_ADDR_REQ", "MM_GET_MAC_ADDR_CFM")
rwnx_send_get_sta_info_req ==
  Sends("MM_GET_STA_INFO_REQ", "MM_GET_STA_INFO_CFM")
rwnx_send_set_stack_start_req ==
  Sends("MM_SET_STACK_START_REQ", "MM_SET_STACK_START_CFM")
rwnx_send_set_temp_comp_req ==
  Sends("MM_SET_VENDOR_SWCONFIG_REQ", "MM_SET_VENDOR_SWCONFIG_CFM")
rwnx_send_vendor_hwconfig_req(id, hasTemp) ==
  CASE id \in HwConfigPlain -> SendsHwConfig(1)
    [] id = "CHIP_TEMP_GET_REQ" -> SendsHwConfig(IF hasTemp THEN 2 ELSE 1)
    [] OTHER -> Refuses("ENOMEM")
rwnx_send_vendor_swconfig_req(id) ==
  IF id \in SwConfig THEN Sends("MM_SET_VENDOR_SWCONFIG_REQ", "MM_SET_VENDOR_SWCONFIG_CFM")
  ELSE Leaves("ENOMEM")
rwnx_send_vendor_hwconfig_req_x2(id, inRange) ==
  CASE id \in HwConfigX2 -> SendsHwConfig(1)
    [] id \in HwConfigX2Checked -> IF inRange THEN SendsHwConfig(1) ELSE Refuses("OK")
    [] OTHER -> Refuses("ENOMEM")
rwnx_send_vendor_swconfig_req_x2(id) ==
  IF id \in SwConfig \cup {"TWO_ANT_RSSI_GET_REQ"} THEN rwnx_send_vendor_swconfig_req("BCN_CFG_REQ")
  ELSE Leaves("ENOMEM")
rwnx_send_mask_set_ext_flags_req ==
  Sends("MM_SET_VENDOR_SWCONFIG_REQ", "MM_SET_VENDOR_SWCONFIG_CFM")
rwnx_send_get_fw_version_req ==
  Sends("MM_GET_FW_VERSION_REQ", "MM_GET_FW_VERSION_CFM")
rwnx_send_txpwr_idx_req ==
  Sends("MM_SET_TXPWR_IDX_LVL_REQ", "MM_SET_TXPWR_IDX_LVL_CFM")
rwnx_send_txpwr_lvl_req(enable) ==
  IF enable THEN Sends("MM_SET_TXPWR_IDX_LVL_REQ", "MM_SET_TXPWR_IDX_LVL_CFM")
  ELSE Refuses("OK")
rwnx_send_txpwr_lvl_v3_req(enable) ==
  IF enable THEN Sends("MM_SET_TXPWR_IDX_LVL_REQ", "MM_SET_TXPWR_IDX_LVL_CFM")
  ELSE Refuses("OK")
rwnx_send_txpwr_lvl_v4_req(enable) ==
  IF enable THEN Sends("MM_SET_TXPWR_IDX_LVL_REQ", "MM_SET_TXPWR_IDX_LVL_CFM")
  ELSE Refuses("OK")
rwnx_send_txpwr_lvl_adj_req(enable) ==
  IF enable THEN Sends("MM_SET_TXPWR_LVL_ADJ_REQ", "MM_SET_TXPWR_LVL_ADJ_CFM")
  ELSE Refuses("OK")
rwnx_send_txpwr_ofst_req(enable) ==
  IF enable THEN Sends("MM_SET_TXPWR_OFST_REQ", "MM_SET_TXPWR_OFST_CFM")
  ELSE Refuses("OK")
rwnx_send_txpwr_ofst2x_req(enable) ==
  IF enable THEN Sends("MM_SET_TXPWR_OFST_REQ", "MM_SET_TXPWR_OFST_CFM")
  ELSE Refuses("OK")
rwnx_send_txpwr_ofst2x_v2_req(enable) ==
  IF enable THEN Sends("MM_SET_TXPWR_OFST_REQ", "MM_SET_TXPWR_OFST_CFM")
  ELSE Refuses("OK")
rwnx_send_set_filter == Sends("MM_SET_FILTER_REQ", "MM_SET_FILTER_CFM")
rwnx_send_me_config_req == Sends("ME_CONFIG_REQ", "ME_CONFIG_CFM")
rwnx_send_me_chan_config_req ==
  Sends("ME_CHAN_CONFIG_REQ", "ME_CHAN_CONFIG_CFM")
rwnx_send_me_set_control_port_req ==
  Sends("ME_SET_CONTROL_PORT_REQ", "ME_SET_CONTROL_PORT_CFM")
rwnx_send_me_sta_add == Sends("ME_STA_ADD_REQ", "ME_STA_ADD_CFM")
rwnx_send_me_sta_del == Sends("ME_STA_DEL_REQ", "ME_STA_DEL_CFM")
rwnx_send_me_traffic_ind == Sends("ME_TRAFFIC_IND_REQ", "ME_TRAFFIC_IND_CFM")
rwnx_send_me_rc_stats == Sends("ME_RC_STATS_REQ", "ME_RC_STATS_CFM")
rwnx_send_me_rc_set_rate == Tells("ME_RC_SET_RATE_REQ")
rwnx_send_me_set_ps_mode == Sends("ME_SET_PS_MODE_REQ", "ME_SET_PS_MODE_CFM")
rwnx_send_me_set_lp_level ==
  Sends("ME_SET_LP_LEVEL_REQ", "ME_SET_LP_LEVEL_CFM")
rwnx_send_sm_connect_req(iesFit, authKnown) ==
  IF iesFit /\ authKnown THEN Sends("SM_CONNECT_REQ", "SM_CONNECT_CFM")
  ELSE Refuses("EINVAL")
rwnx_send_sm_disconnect_req == Sends("SM_DISCONNECT_REQ", "SM_DISCONNECT_CFM")
rwnx_send_sm_external_auth_required_rsp ==
  Sends("SM_EXTERNAL_AUTH_REQUIRED_RSP", "SM_EXTERNAL_AUTH_REQUIRED_RSP_CFM")
rwnx_send_apm_start_req(built) ==
  IF built THEN Both(rwnx_send_bcn, Sends("APM_START_REQ", "APM_START_CFM"))
  ELSE Refuses("ENOMEM")
rwnx_send_apm_stop_req == Sends("APM_STOP_REQ", "APM_STOP_CFM")
rwnx_send_scanu_cancel_req == Sends("SCANU_CANCEL_REQ", "SCANU_CANCEL_CFM")
rwnx_send_apm_start_cac_req == Sends("APM_START_CAC_REQ", "APM_START_CAC_CFM")
rwnx_send_apm_stop_cac_req == Sends("APM_STOP_CAC_REQ", "APM_STOP_CAC_CFM")
rwnx_send_mesh_start_req == Sends("MESH_START_REQ", "MESH_START_CFM")
rwnx_send_mesh_stop_req == Sends("MESH_STOP_REQ", "MESH_STOP_CFM")
rwnx_send_mesh_update_req(supp_mask) ==
  IF supp_mask = {} THEN Refuses("ENOENT")
  ELSE Sends("MESH_UPDATE_REQ", "MESH_UPDATE_CFM")
rwnx_send_mesh_peer_info_req ==
  Sends("MESH_PEER_INFO_REQ", "MESH_PEER_INFO_CFM")
rwnx_send_mesh_peer_update_ntf == Tells("MESH_PEER_UPDATE_NTF")
rwnx_send_mesh_path_create_req(create_path) ==
  IF create_path THEN Refuses("OK") ELSE Tells("MESH_PATH_CREATE_REQ")
rwnx_send_mesh_path_update_req ==
  Sends("MESH_PATH_UPDATE_REQ", "MESH_PATH_UPDATE_CFM")
rwnx_send_mesh_proxy_add_req == Tells("MESH_PROXY_ADD_REQ")
rwnx_send_tdls_peer_traffic_ind_req(tdls_sta) ==
  IF tdls_sta THEN Tells("TDLS_PEER_TRAFFIC_IND_REQ") ELSE Refuses("ENOLINK")
rwnx_send_config_monitor_req ==
  Sends("ME_CONFIG_MONITOR_REQ", "ME_CONFIG_MONITOR_CFM")
rwnx_send_tdls_chan_switch_req ==
  Sends("TDLS_CHAN_SWITCH_REQ", "TDLS_CHAN_SWITCH_CFM")
rwnx_send_tdls_cancel_chan_switch_req ==
  Sends("TDLS_CANCEL_CHAN_SWITCH_REQ", "TDLS_CANCEL_CHAN_SWITCH_CFM")
rwnx_send_dbg_trigger_req == Tells("MM_DBG_TRIGGER_REQ")
rwnx_send_dbg_mem_read_req == Sends("DBG_MEM_READ_REQ", "DBG_MEM_READ_CFM")
rwnx_send_dbg_mem_write_req == Sends("DBG_MEM_WRITE_REQ", "DBG_MEM_WRITE_CFM")
rwnx_send_dbg_mem_mask_write_req ==
  Sends("DBG_MEM_MASK_WRITE_REQ", "DBG_MEM_MASK_WRITE_CFM")
rwnx_send_rftest_req(argc) ==
  IF argc > 30 THEN Leaves("ENOMEM")
  ELSE Sends("DBG_RFTEST_CMD_REQ", "DBG_RFTEST_CMD_CFM")
rwnx_send_dbg_set_mod_filter_req ==
  Sends("DBG_SET_MOD_FILTER_REQ", "DBG_SET_MOD_FILTER_CFM")
rwnx_send_dbg_set_sev_filter_req ==
  Sends("DBG_SET_SEV_FILTER_REQ", "DBG_SET_SEV_FILTER_CFM")
rwnx_send_dbg_get_sys_stat_req ==
  Sends("DBG_GET_SYS_STAT_REQ", "DBG_GET_SYS_STAT_CFM")
rwnx_send_dbg_mem_block_write_req ==
  Sends("DBG_MEM_BLOCK_WRITE_REQ", "DBG_MEM_BLOCK_WRITE_CFM")
rwnx_send_dbg_mem_block_read_req ==
  Sends("DBG_MEM_BLOCK_READ_REQ", "DBG_MEM_BLOCK_READ_CFM")
rwnx_send_dbg_start_app_req == Sends("DBG_START_APP_REQ", "DBG_START_APP_CFM")
rwnx_send_dbg_gpio_write_req ==
  Sends("DBG_GPIO_WRITE_REQ", "DBG_GPIO_WRITE_CFM")
rwnx_send_dbg_gpio_read_req == Sends("DBG_GPIO_READ_REQ", "DBG_GPIO_READ_CFM")
rwnx_send_dbg_gpio_init_req == Sends("DBG_GPIO_INIT_REQ", "DBG_GPIO_INIT_CFM")
rwnx_send_cfg_rssi_req(inTable) ==
  IF inTable THEN Sends("MM_CFG_RSSI_REQ", "MM_CFG_RSSI_CFM")
  ELSE Leaves("OK")
rwnx_send_reboot == rwnx_send_dbg_start_app_req
=============================================================================
