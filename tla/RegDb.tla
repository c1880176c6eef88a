------------------------------- MODULE RegDb -------------------------------
(***************************************************************************)
(* The regulatory data of the driver (regdb.c), the lookup of a country    *)
(* and the list of channels the driver builds from it                      *)
(* (rwnx_mod_params.c), over the two tables of channels of rwnx_main.c.    *)
(*                                                                         *)
(* A rule is the frequencies it spans, in MHz, and whether it asks for     *)
(* radar detection; bandwidth, power and the other flags are left out.     *)
(* LikeXX is the sequence of rules that XX shares with other countries.    *)
(***************************************************************************)
EXTENDS Integers, Sequences, FiniteSets, TLC, SequencesExt

R(lo, hi) == [lo |-> lo, hi |-> hi, dfs |-> FALSE]
D(lo, hi) == [lo |-> lo, hi |-> hi, dfs |-> TRUE]

Like00 == <<R(2380, 2520), R(5140, 5980)>>
LikeAD ==
  <<R(2400, 2483), R(5150, 5250), D(5250, 5350), D(5470, 5725),
    R(5725, 5875), R(57000, 66000)>>
LikeAE == <<R(2402, 2482), R(5170, 5250), D(5250, 5330), D(5490, 5730), R(5735, 5835)>>
LikeAF == <<R(2402, 2482), R(5170, 5250), D(5250, 5330), D(5490, 5710)>>
LikeAL == <<R(2400, 2483), R(5150, 5250), D(5250, 5350), D(5470, 5725), R(5725, 5875)>>
LikeAM == <<R(2402, 2482), R(5170, 5250), D(5250, 5330)>>
LikeAS == <<R(2402, 2472), R(5170, 5250), D(5250, 5330), D(5490, 5730), R(5735, 5835)>>
LikeAT ==
  <<R(2400, 2483), R(5150, 5250), D(5250, 5350), D(5470, 5725),
    R(5725, 5875), R(5945, 6425), R(57000, 66000)>>
LikeBB == <<R(2402, 2482), R(5170, 5250), D(5250, 5330), R(5735, 5835)>>
LikeBO == <<R(2402, 2482), D(5250, 5330), R(5735, 5835)>>
LikeBZ == <<R(2402, 2482), R(5735, 5835)>>
LikeCH ==
  <<R(2400, 2483), R(5150, 5250), D(5250, 5350), D(5470, 5725),
    R(5725, 5875), R(5945, 6425), R(57000, 71000)>>
LikeDM == <<R(2402, 2472), R(5170, 5250), D(5250, 5330), R(5735, 5835)>>
LikeIL == <<R(2402, 2482), R(5150, 5250), D(5250, 5350), D(5470, 5725), R(5725, 5875)>>
LikeIS ==
  <<R(2400, 2483), R(5150, 5250), D(5250, 5350), D(5470, 5725),
    D(5725, 5875), R(57000, 66000)>>
LikeKN == <<R(2402, 2482), R(5170, 5250), D(5250, 5330), D(5490, 5710), R(5735, 5815)>>
LikeKZ ==
  <<R(2400, 2483), R(5150, 5250), D(5250, 5350), D(5470, 5725),
    R(5725, 5850), R(57000, 66000)>>
LikeSG ==
  <<R(2400, 2483), R(5150, 5250), D(5250, 5350), D(5470, 5730),
    R(5725, 5850), R(5945, 6425), R(57000, 66000)>>
LikeSY == <<R(2402, 2482)>>

regdom_00_AR ==
  [AD |-> LikeAD, AE |-> LikeAE, AF |-> LikeAF, AI |-> LikeAF, AL |-> LikeAL, AM |-> LikeAM,
   AN |-> LikeAF, AR |-> LikeAE]
regdom_AS_BF ==
  [AS |-> LikeAS, AT |-> LikeAT,
   AU |-> <<R(2400, 2483), R(5150, 5250), D(5250, 5350), D(5470, 5600),
      D(5650, 5730), R(5730, 5850), R(5850, 5875), R(5925, 6425), R(57000, 71000)>>, AW |-> LikeAF,
   AZ |-> LikeAM, BA |-> LikeAD, BB |-> LikeBB, BD |-> LikeAT, BE |-> LikeAT, BF |-> LikeAE]
regdom_BG_BW ==
  [BG |-> LikeAT, BH |-> LikeBB, BL |-> LikeAF, BM |-> LikeAS, BN |-> LikeBB, BO |-> LikeBO,
   BR |-> <<R(2400, 2483), R(5150, 5250), D(5250, 5350), D(5470, 5725),
      R(5725, 5850), R(5925, 7125), R(57000, 71000)>>, BS |-> LikeAE, BT |-> LikeAF, BW |-> LikeAT]
regdom_BY_CR ==
  ("BY" :> LikeAF) @@
  [BZ |-> LikeBZ,
   CA |-> <<R(2402, 2472), R(5150, 5250), D(5250, 5350), D(5470, 5600),
      D(5650, 5730), R(5735, 5835), R(5925, 7125)>>, CF |-> LikeAE, CH |-> LikeCH, CI |-> LikeAE,
   CL |-> LikeBB,
   CN |-> <<R(2400, 2483), D(5150, 5350), R(5725, 5850), R(57240, 59400),
      R(59400, 63720), R(63720, 65880)>>, CO |-> LikeAE, CR |-> LikeAE]
regdom_CU_DZ ==
  [CU |-> <<R(2400, 2483), R(5150, 5350), R(5470, 5725), R(5725, 5850)>>, CX |-> LikeAE,
   CY |-> LikeAT, CZ |-> LikeAT, DE |-> LikeAT, DK |-> LikeAT, DM |-> LikeDM, DO |-> LikeDM,
   DZ |-> LikeAT]
regdom_EC_GB ==
  [EC |-> <<R(2400, 2483), D(5150, 5250), D(5250, 5350), D(5470, 5725), R(5725, 5850)>>,
   EE |-> LikeAT, EG |-> <<R(2402, 2483), R(5150, 5250), D(5250, 5350), R(57000, 66000)>>,
   ES |-> LikeAT, ET |-> LikeAF, FI |-> LikeAT, FM |-> LikeAS, FR |-> LikeAT,
   GB |-> <<R(2400, 2483), R(5150, 5250), D(5250, 5350), D(5470, 5730),
      R(5725, 5850), R(5925, 6425), R(57000, 71000)>>]
regdom_GD_GU ==
  [GD |-> LikeAS, GE |-> <<R(2402, 2482), R(5170, 5250), D(5250, 5330), R(57000, 66000)>>,
   GF |-> LikeAF, GH |-> LikeAT, GI |-> LikeAT, GL |-> LikeAF, GP |-> LikeAF, GR |-> LikeAT,
   GT |-> LikeDM, GU |-> LikeAS]
regdom_GY_IN ==
  [GY |-> LikeAE,
   HK |-> <<R(2400, 2483), R(5150, 5250), D(5250, 5350), D(5470, 5730),
      R(5730, 5850), R(5925, 6425)>>, HN |-> LikeAE, HR |-> LikeAT, HT |-> LikeAS, HU |-> LikeAT,
   ID |-> <<R(2400, 2483), R(5150, 5350), R(5725, 5825)>>, IE |-> LikeAT, IL |-> LikeIL]
   @@ ("IN" :> LikeIL)

regdom_IQ_KH ==
  [IQ |-> LikeAT, IR |-> LikeBZ, IS |-> LikeIS, IT |-> SubSeq(LikeAT, 1, 5), JM |-> LikeAE,
   JO |-> <<R(2402, 2482), R(5170, 5250), R(5735, 5835)>>,
   JP |-> <<R(2402, 2482), R(2474, 2494), R(4910, 4990), R(5170, 5250),
      D(5250, 5330), D(5490, 5730), R(5925, 6425), R(57000, 66000)>>,
   KE |-> <<R(2402, 2482), R(5170, 5250), D(5490, 5570), R(5735, 5775)>>, KG |-> LikeAT,
   KH |-> LikeAF]
regdom_KN_LK ==
  [KN |-> LikeKN,
   KP |-> <<R(2402, 2482), R(5170, 5250), D(5250, 5330), D(5490, 5630), R(5735, 5815)>>,
   KR |-> <<R(2400, 2483), R(5150, 5230), R(5230, 5250), D(5250, 5350),
      D(5470, 5725), R(5725, 5850), R(5925, 7125), R(57000, 66000)>>, KW |-> LikeAM, KY |-> LikeAE,
   KZ |-> LikeKZ, LB |-> LikeAE, LC |-> LikeKN, LI |-> LikeAD, LK |-> LikeAE]
regdom_LS_ME ==
  [LS |-> LikeAF, LT |-> LikeAT, LU |-> LikeAT, LV |-> LikeAT, LY |-> LikeAT, MA |-> LikeAM,
   MC |-> LikeAL, MD |-> LikeAL, ME |-> LikeAL]
regdom_MF_MU ==
  [MF |-> LikeAF, MH |-> LikeAS, MK |-> LikeAD, MN |-> LikeAE, MO |-> LikeAE, MP |-> LikeAS,
   MQ |-> LikeAF, MR |-> LikeAF, MT |-> LikeAT, MU |-> LikeAE]
regdom_MV_NO ==
  [MV |-> <<R(2400, 2483), R(5150, 5250), D(5250, 5350), R(5725, 5850)>>, MW |-> LikeAF,
   MX |-> LikeAE, MY |-> LikeAT, NA |-> LikeAT, NG |-> LikeBO, NI |-> LikeAS, NL |-> LikeAT,
   NO |-> LikeCH]
regdom_NP_PK ==
  [NP |-> LikeBB, NZ |-> LikeAE, OM |-> LikeAF,
   PA |-> <<R(2400, 2483), R(5150, 5250), R(5250, 5350), R(5470, 5725),
      R(5725, 5850), R(57000, 64000)>>, PE |-> LikeAT, PF |-> LikeAF, PG |-> LikeAE, PH |-> LikeAT,
   PK |-> <<R(2402, 2482), R(5150, 5270), D(5270, 5350), D(5470, 5610),
      R(5610, 5725), R(5725, 5875), R(57000, 66000)>>]
regdom_PL_RO ==
  [PL |-> LikeAT, PM |-> LikeAF, PR |-> LikeAS, PT |-> LikeAT, PW |-> LikeAS, PY |-> LikeAE,
   QA |-> LikeIS, RE |-> LikeAF, RO |-> LikeAT]
regdom_RS_SM ==
  [RS |-> LikeAD,
   RU |-> <<R(2400, 2483), R(5150, 5350), R(5650, 5850), R(5925, 6425), R(57000, 66000)>>,
   RW |-> LikeAE, SA |-> LikeAF, SE |-> LikeAT, SG |-> LikeSG, SI |-> LikeAT, SK |-> LikeAT,
   SM |-> LikeAT]
regdom_SN_TM ==
  [SN |-> LikeAE, SR |-> LikeAF, SV |-> LikeBB, SY |-> LikeSY, TC |-> LikeAE, TD |-> LikeAF,
   TG |-> LikeAF, TH |-> LikeAT, TJ |-> LikeAT, TM |-> LikeAT]
regdom_TN_UY ==
  [TN |-> LikeAM,
   TR |-> <<R(2400, 2483), R(5150, 5250), D(5250, 5330), D(5470, 5725),
      R(5495, 6425), R(57000, 66000)>>, TT |-> LikeAE, TW |-> LikeSG, TZ |-> LikeBZ, UA |-> LikeKZ,
   UG |-> LikeAE,
   US |-> <<R(2400, 2472), R(5150, 5250), D(5250, 5350), D(5470, 5730),
      R(5730, 5850), R(5850, 5895), R(5925, 7125), R(57240, 71000)>>, UY |-> LikeAT]
regdom_UZ_YE ==
  [UZ |-> LikeAM, VC |-> LikeAF, VE |-> LikeBB, VI |-> LikeAS, VN |-> LikeAE, VU |-> LikeAE,
   WF |-> LikeAF, WS |-> LikeAF, FK |-> LikeAT, FO |-> LikeAT, YE |-> LikeSY]
regdom_YT_XX ==
  [YT |-> LikeAF, ZA |-> <<R(2402, 2482), R(5170, 5250), D(5250, 5330), R(5490, 5710)>>,
   ZM |-> LikeAT, ZW |-> LikeAF, WW |-> Like00, XX |-> <<R(2402, 2472)>>]

reg_regdb ==
  ("00" :> Like00) @@ regdom_00_AR @@ regdom_AS_BF @@ regdom_BG_BW @@ regdom_BY_CR @@
  regdom_CU_DZ @@ regdom_EC_GB @@ regdom_GD_GU @@ regdom_GY_IN @@ regdom_IQ_KH @@
  regdom_KN_LK @@ regdom_LS_ME @@ regdom_MF_MU @@ regdom_MV_NO @@ regdom_NP_PK @@
  regdom_PL_RO @@ regdom_RS_SM @@ regdom_SN_TM @@ regdom_TN_UY @@ regdom_UZ_YE @@
  regdom_YT_XX
Countries == DOMAIN reg_regdb

-----------------------------------------------------------------------------
Steps(from, to, step) == [i \in 1..((to - from) \div step + 1) |-> from + (i - 1) * step]

(* The standard channels come first, the extra ones of custchan after.     *)
rwnx_2ghz_channels == Steps(2412, 2472, 5) \o <<2484>> \o Steps(2390, 2510, 10)
rwnx_5ghz_channels ==
  Steps(5180, 5320, 20) \o Steps(5500, 5720, 20) \o Steps(5745, 5825, 20)
    \o Steps(5190, 5330, 20) \o Steps(5340, 5490, 10) \o Steps(5510, 5750, 20) \o Steps(5760, 5970, 10)
Extra2 == 13
Extra5 == 59
Channels2 == Len(rwnx_2ghz_channels) - Extra2
Channels5 == Len(rwnx_5ghz_channels) - Extra5

ieee80211_frequency_to_channel(f) ==
  IF f = 2484 THEN 14 ELSE IF f < 2484 THEN (f - 2407) \div 5 ELSE (f - 5000) \div 5
(* The bytes of a channel in ccode_channels, its blank included.           *)
TextLen(f) ==
  LET c == ieee80211_frequency_to_channel(f) IN IF c \in 0..9 THEN 2 ELSE IF c < 100 THEN 3 ELSE 4

(* Its 20 MHz lie within the rule. *)
Within(f, r) == f - 10 >= r.lo /\ f + 10 <= r.hi

(* The rules a channel is listed for: the search stops at the first.       *)
Fitting(f, rules) ==
  LET all == SelectSeq(rules, LAMBDA r : Within(f, r)) IN SubSeq(all, 1, IF all = <<>> THEN 0 ELSE 1)

(* support_freqs, as the driver would write it, for the channels of the    *)
(* bands it has: one entry for each rule found.                            *)
rwnx_get_countrycode_channels(rules, freqs) ==
  FlattenSeq([i \in DOMAIN freqs |-> [j \in DOMAIN Fitting(freqs[i], rules) |-> freqs[i]]])

(* An unknown country is taken for the first of the table.                 *)
getRegdomainFromRwnxDB(alpha2) == IF alpha2 \in Countries THEN alpha2 ELSE "00"
=============================================================================
