----------------------------- MODULE ModParams -----------------------------
(***************************************************************************)
(* What the driver tells cfg80211 a device can do (rwnx_mod_params.c): the *)
(* module parameters are corrected for the chip, and the capabilities of   *)
(* the two bands are filled in from them.                                  *)
(*                                                                         *)
(* The parameters and the bands are static data of the module: they live   *)
(* on when the device is pulled out and are what the next one starts from. *)
(* Parameters that are on or off are a set of names, capabilities that are *)
(* only ever or-ed together a set of flags.                                *)
(***************************************************************************)
EXTENDS RegDb

CONSTANT ParScenes   \* parameters given to the module and bounds: records [on, mcs_map, nss, plugs, countries]

VARIABLES
  par,    \* rwnx_mod_params: on (a set), mcs_map, he_mcs_map, nss
  band2,  \* rwnx_band_2GHz
  band5,  \* rwnx_band_5GHz
  hecap,  \* rwnx_he_capa, which both bands point to
  wlan,    \* the device plugged in: chip, whether it has 5 GHz, its regulatory
          \* domain and support_freqs
  past,   \* chips that were plugged in before
  asked,  \* what the module was loaded with
  parleft   \* what the bounds leave
parVars == <<par, band2, band5, hecap, wlan, past, asked, parleft>>

Chips == {"8801", "DC", "DW", "D81", "D81X2", "D89X2"}
Wideband == {"D81", "D81X2", "D89X2"}
TwoStream == {"D81X2", "D89X2"}
NoWlan == [chip |-> "none", five |-> FALSE, domain |-> "", freqs |-> <<>>]
Lower(a, b) == IF a <= b THEN a ELSE b

\* values of the VHT and HE maps
VHT_0_8 == 1
VHT_0_9 == 2
HE_0_9 == 1
HE_0_11 == 2
SCAN_CHANNEL_MAX == 42
CcodeText == 200

\* the flags that a parameter adds
When(on, p, flags) == IF p \in on THEN flags ELSE {}

\* mutant: the parameter for every chip
Streams_Param(chip, nss) == nss
(* The chips up to the D81 have one stream.                                *)
Streams(chip, nss) == IF chip \in TwoStream THEN nss ELSE 1
TxStbc(chip, on) == IF chip \in TwoStream THEN When(on, "stbc_on", {"TXSTBC"}) ELSE {}

-----------------------------------------------------------------------------
(* The corrections: on a chip without 80 MHz a parameter that is on is     *)
(* switched off; in every other case it is switched on.                    *)
Corrected(on, chip, p) == IF chip \notin Wideband /\ p \in on THEN on \ {p} ELSE on \cup {p}
DynParams(p, chip) ==
  [p EXCEPT !.he_mcs_map = IF chip \notin Wideband /\ @ > HE_0_9 THEN HE_0_9 ELSE HE_0_11,
            !.on = Corrected(Corrected(@, chip, "use_80"), chip, "sgi80")]

(* Custom channels are added to what the static band has.                  *)
rwnx_set_wiphy_params(b, on, extra) ==
  [b EXCEPT !.n_channels = IF {"custregd", "custchan"} \subseteq on THEN @ + extra ELSE @]

mcs_map_to_rate ==
  [w20 |-> <<65, 78, 78>>, w40 |-> <<135, 162, 180>>, w80 |-> <<292, 351, 390>>]
rwnx_set_vht_capa(b, p, chip) ==
  LET on  == p.on
      nss == Streams(chip, p.nss)
      map == Lower(p.mcs_map, IF "use_2040" \in on THEN VHT_0_9 ELSE VHT_0_8)
      bw  == IF "use_80" \in on THEN "w80" ELSE IF "use_2040" \in on THEN "w40" ELSE "w20"
      all == b.vht.caps \cup When(on, "sgi80", {"SHORT_GI_80"}) \cup When(on, "stbc_on", {"RXSTBC_1"})
               \cup When(on, "ldpc_on", {"RXLDPC"}) \cup When(on, "bfmee", {"SU_BEAMFORMEE"})
               \cup TxStbc(chip, on) \cup When(on, "bfmer", {"SU_BEAMFORMER"})
               \cup When(on, "murx", {"MU_BEAMFORMEE"}) \cup When(on, "mutx", {"MU_BEAMFORMER"})
  IN IF "vht_on" \notin on THEN b
     ELSE [b EXCEPT !.vht = [supported |-> TRUE, map |-> map, nss |-> nss,
                             highest |-> mcs_map_to_rate[bw][map + 1] * nss,
                             caps |-> IF "use_80" \in on THEN all
                                      ELSE (all \cup {"NOT_SUP_WIDTH_80"}) \ {"SHORT_GI_80"}]]

(* rx_mask has a byte for each stream; those of an earlier device stay.    *)
rwnx_set_ht_capa(b, p, chip) ==
  LET on  == p.on
      nss == Streams(chip, p.nss)
      rate == IF "use_2040" \in on THEN IF "sgi" \in on THEN 150 ELSE 135
                                   ELSE IF "sgi" \in on THEN 72 ELSE 65
  IN IF "ht_on" \notin on THEN [b EXCEPT !.ht.supported = FALSE]
     ELSE [b EXCEPT !.ht.caps = @ \cup When(on, "stbc_on", {"RXSTBC_1"}) \cup When(on, "ldpc_on", {"LDPC"})
                                  \cup When(on, "use_2040", {"WIDTH_20_40"}) \cup TxStbc(chip, on)
                                  \cup When(on, "sgi", {"SGI_20"} \cup When(on, "use_2040", {"SGI_40"}))
                                  \cup When(on, "gf_rx_on", {"GRN_FLD"}),
                    !.ht.highest = rate * nss,
                    !.ht.rx_mask = IF nss > @ THEN nss ELSE @]

HeRx(chip, map) == IF chip \in {"8801", "DC", "DW"} THEN Lower(map, HE_0_9) ELSE map
(* Without LDPC the parameter itself is lowered, by the VHT map.           *)
HeParams(p) ==
  IF {"he_on", "ldpc_on"} \cap p.on = {"he_on"} THEN [p EXCEPT !.he_mcs_map = Lower(p.mcs_map, HE_0_9)]
  ELSE p
(* For the 5 GHz band the same is done to the same structure again.        *)
rwnx_set_he_capa(h, p, chip) ==
  LET on  == p.on
      nss == Streams(chip, p.nss)
      map == HeParams(p).he_mcs_map
  IN IF "he_on" \notin on THEN h
     ELSE [has |-> TRUE, nss |-> nss, rx |-> HeRx(chip, map), tx |-> map,
           caps |-> h.caps \cup {"40_80_IN_5G"} \cup When(on, "use_2040", {"40_IN_2G", "PPE_40"})
                      \cup When(on, "use_80", {"PPE_80"}) \cup (IF nss = 2 THEN {"PPE_2SS"} ELSE {})
                      \cup When(on, "ldpc_on", {"LDPC"}) \cup When(on, "stbc_on", {"RXSTBC_1"})
                      \cup TxStbc(chip, on) \cup When(on, "bfmee", {"SU_BEAMFORMEE"})]
IfType(b, on) == [b EXCEPT !.he = @ /\ "he_on" \in on]

(* The channels the driver walks over, past the end of the array too.      *)
Walked(d, b2, b5) ==
  SubSeq(rwnx_2ghz_channels, 1, Lower(b2.n_channels, Len(rwnx_2ghz_channels)))
    \o IF d.five THEN SubSeq(rwnx_5ghz_channels, 1, Lower(b5.n_channels, Len(rwnx_5ghz_channels))) ELSE <<>>
Regulated(d, c, b2, b5) ==
  LET rd == getRegdomainFromRwnxDB(c)
  IN [d EXCEPT !.domain = rd, !.freqs = rwnx_get_countrycode_channels(reg_regdb[rd], Walked(d, b2, b5))]

-----------------------------------------------------------------------------
Band(n) == [n_channels |-> n, he |-> TRUE,
            vht |-> [supported |-> FALSE, map |-> VHT_0_9, nss |-> 1, highest |-> 0, caps |-> {}],
            ht |-> [supported |-> TRUE, caps |-> {}, highest |-> 65, rx_mask |-> 1]]
rwnx_mod_params ==
  /\ parleft \in ParScenes
  /\ par = [on |-> parleft.on, mcs_map |-> parleft.mcs_map, he_mcs_map |-> HE_0_11, nss |-> parleft.nss]
  /\ asked = parleft.on
  /\ band2 = Band(Channels2) /\ band5 = Band(Channels5)
  /\ hecap = [has |-> FALSE, nss |-> 2, rx |-> HE_0_11, tx |-> HE_0_11, caps |-> {}]
  /\ wlan = NoWlan /\ past = {}

(* The part of rwnx_cfg80211_init that fills in the wiphy: the bands, the  *)
(* parameters, and after the registration the regulatory domain.           *)
rwnx_handle_dynparams(chip, five) ==
  /\ wlan = NoWlan /\ parleft.plugs > 0 /\ parleft' = [parleft EXCEPT !.plugs = @ - 1]
  /\ LET p  == DynParams(par, chip)
         q  == HeParams(p)
         w2 == rwnx_set_wiphy_params(band2, p.on, Extra2)
         w5 == IF five THEN rwnx_set_wiphy_params(band5, p.on, Extra5) ELSE band5
         b2 == rwnx_set_ht_capa(IfType(rwnx_set_vht_capa(w2, p, chip), p.on), q, chip)
         b5 == [IfType(rwnx_set_vht_capa(w5, p, chip), p.on) EXCEPT !.ht = b2.ht]
         d  == [NoWlan EXCEPT !.chip = chip, !.five = five]
     IN /\ par' = q
        /\ band2' = b2
        /\ band5' = IF five THEN b5 ELSE band5
        /\ hecap' = rwnx_set_he_capa(hecap, p, chip)
        /\ wlan' = IF "custregd" \in p.on THEN Regulated(d, "00", b2, b5) ELSE d
  /\ UNCHANGED <<past, asked>>
Removed ==
  /\ wlan # NoWlan /\ wlan' = NoWlan /\ past' = past \cup {wlan.chip}
  /\ UNCHANGED <<par, band2, band5, hecap, asked, parleft>>
(* A country set by the user, by one of three commands.                    *)
CountrySet(c) ==
  /\ wlan # NoWlan /\ parleft.countries > 0 /\ parleft' = [parleft EXCEPT !.countries = @ - 1]
  /\ wlan' = Regulated(wlan, c, band2, band5)
  /\ UNCHANGED <<par, band2, band5, hecap, past, asked>>
ParNext == \/ \E chip \in Chips, five \in BOOLEAN : rwnx_handle_dynparams(chip, five)
           \/ Removed
           \/ \E c \in Countries \cup {"--"} : CountrySet(c)

-----------------------------------------------------------------------------
Text(s) == FoldLeft(LAMBDA n, f : n + TextLen(f), 0, s)
Bands == IF wlan.five THEN {band2, band5} ELSE {band2}

(* A device is never described as more than its chip is: the streams of    *)
(* the VHT and HE maps are the chip's, the chips without MCS 10 and 11 do  *)
(* not claim to receive them, no LDPC means no HE MCS above 9 and no       *)
(* 40 MHz no VHT MCS 9.  For the first device after the module is loaded   *)
(* also: transmit STBC and a second HT stream only where the chip has two, *)
(* and a chip without 80 MHz has neither it nor its short guard interval,  *)
(* unless the parameters were given to switch them off, which switches     *)
(* them on.                                                                *)
(* None of these three survives a change of device.                        *)
CapsFit ==
  wlan # NoWlan =>
    LET nss == IF wlan.chip \in TwoStream THEN par.nss ELSE 1 IN
    /\ "vht_on" \in par.on => \A b \in Bands : b.vht.nss = nss /\ ("use_2040" \in par.on \/ b.vht.map <= VHT_0_8)
    /\ "he_on" \in par.on =>
         /\ hecap.nss = nss
         /\ wlan.chip \notin Wideband => hecap.rx <= HE_0_9
         /\ "ldpc_on" \notin par.on => hecap.tx <= HE_0_9
    /\ past = {} =>
         /\ \A b \in Bands : /\ b.ht.rx_mask = nss \/ "ht_on" \notin par.on
                             /\ "TXSTBC" \in b.vht.caps \cup b.ht.caps => wlan.chip \in TwoStream
         /\ wlan.chip \notin Wideband =>
              \A b \in Bands : /\ "SHORT_GI_80" \in b.vht.caps => {"use_80", "sgi80"} \cap asked = {}
                               /\ b.vht.highest > 200 => "use_80" \notin asked

(* The channels of every country fit where the driver writes them, each    *)
(* once; every channel of the radar bands is found under a rule that asks  *)
(* for radar detection except in the nine domains below (TR for channel    *)
(* 144, by a rule that begins at 5495 MHz).  The extra channels of the     *)
(* custchan parameter fit nowhere, and from the second device on they are  *)
(* read past the end of their table.                                       *)
ChannelsFit ==
  wlan.freqs # <<>> =>
    /\ "custchan" \notin asked =>
         /\ Len(wlan.freqs) <= SCAN_CHANNEL_MAX /\ Text(wlan.freqs) <= CcodeText
         /\ IsInjective(wlan.freqs)
    /\ wlan.domain \notin {"00", "WW", "CU", "ID", "PA", "PK", "RU", "TR", "ZA"} =>
         \A i \in DOMAIN wlan.freqs :
           wlan.freqs[i] \in 5260..5720 => Fitting(wlan.freqs[i], reg_regdb[wlan.domain])[1].dfs
    /\ Len(rwnx_2ghz_channels) < band2.n_channels => "custchan" \in asked /\ past # {}

(* What the driver declares is what the chip and the country allow.        *)
DeclaredFit == CapsFit /\ ChannelsFit
=============================================================================
