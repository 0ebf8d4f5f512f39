---------------------------- MODULE CliCommands ----------------------------
(***************************************************************************)
(* The parameters of the command line: what `get' and `dump' print of a    *)
(* setting and what `set' makes of the words printed.  A parameter is a    *)
(* setting, a bit of a mask, or a row: the members of one element of an    *)
(* array, printed and read in columns.                                     *)
(***************************************************************************)
EXTENDS ModelConfig

FeatureBits == [feature_gps |-> 7, feature_dyn_notch |-> 29, feature_motor_stop |-> 4, feature_rx_ppm |-> 0,
                feature_rx_serial |-> 3, feature_rx_spi |-> 25, feature_soft_serial |-> 6, feature_telemetry |-> 10]
LogBits == [blackbox_log_pid |-> 0, blackbox_log_rc |-> 1, blackbox_log_sp |-> 2, blackbox_log_bat |-> 3, blackbox_log_mag |-> 4,
            blackbox_log_alt |-> 5, blackbox_log_rssi |-> 6, blackbox_log_gyro |-> 7, blackbox_log_acc |-> 8, blackbox_log_debug |-> 9,
            blackbox_log_motor |-> 10, blackbox_log_gps |-> 11, blackbox_log_rpm |-> 12, blackbox_log_gyro_raw |-> 13]
BitOf == FeatureBits @@ LogBits
MaskOf(p) == IF p \in DOMAIN FeatureBits THEN "featureMask" ELSE "fieldsMask"

\* Rows and the kind of their element.
Row(array, i) == array \o "_" \o ToString(i)
Rows(array, n) == {Row(array, i) : i \in 0..(n - 1)}
Kind ==
  [p \in Rows("mode", NConditions) |-> "mode"] @@ [p \in Rows("input", NChannels) |-> "input"]
  @@ [p \in Rows("output", NOutputs) |-> "output"] @@ [p \in Rows("scaler", 3) |-> "scaler"]
  @@ [p \in Rows("mix", NMixes) |-> "mix"] @@ [p \in Rows("pin", NOutputs) |-> "pin"] @@ [p \in DOMAIN Ports |-> "serial"]

\* Settings without a parameter.
Unlisted == {"ppmMode", "serialRxProvider", "minCheck", "maxCheck", "telemetry", "beeperMask"}
            \cup {axis \o gain : axis \in {"pid_alt", "pid_pos", "pid_posr", "pid_navr", "pid_mag"}, gain \in {"_p", "_i", "_d", "_f"}}
RowSettings == {f \in DOMAIN Setting : \E p \in DOMAIN Kind : \E m \in
                  {"id", "ch", "min", "max", "logicMode", "linkId", "map", "neutral", "fsMode", "fsValue", "servo", "reverse", "dimension",
                   "channel", "minScale", "maxScale", "src", "dst", "rate", "output", "functionMask", "baud", "blackboxBaud"} : f = p \o "." \o m}
Plain == ((DOMAIN Setting \ Unlisted) \ RowSettings) \ {"featureMask", "fieldsMask"}
Params == Plain \cup DOMAIN BitOf \cup DOMAIN Kind

-----------------------------------------------------------------------------
\* Param::print: the columns of a row, and the word for a value.
Printed == [mode |-> <<"id", "ch", "min", "max", "logicMode", "linkId">>,
            input |-> <<"map", "min", "neutral", "max", "fsMode", "fsValue">>,
            output |-> <<"servo", "reverse", "min", "neutral", "max">>,
            scaler |-> <<"dimension", "channel", "minScale", "maxScale">>,
            mix |-> <<"src", "dst", "rate">>, serial |-> <<"functionMask", "baud", "blackboxBaud">>, pin |-> <<"output">>]
Unknown == -1000000       \* the word "?"
Word(column, v) == IF column = "fsMode" /\ v \notin 0..2 THEN Unknown ELSE v
Words(cfg, p) ==
  IF p \in DOMAIN Kind
  THEN [k \in 1..Len(Printed[Kind[p]]) |-> Word(Printed[Kind[p]][k], cfg[p \o "." \o Printed[Kind[p]][k]])]
  ELSE IF p \in DOMAIN BitOf THEN <<Bit(cfg[MaskOf(p)], BitOf[p])>>
  ELSE <<cfg[p]>>

\* Param::update: of a name with several words only the first is an argument.
\* Mutant: the columns of an output in the order of the structure.
Written_OtherOrder ==
  [Printed EXCEPT !.output = <<"min", "max", "neutral", "servo", "reverse">>]
Written == [mode |-> <<"id", "ch", "min", "max", "logicMode", "linkId">>,
            input |-> <<"map", "min", "neutral", "max", "fsMode", "fsValue">>,
            output |-> <<"servo", "reverse", "min", "neutral", "max">>,
            scaler |-> <<"dimension", "channel", "minScale", "maxScale">>,
            mix |-> <<"src", "dst", "rate">>, serial |-> <<"functionMask", "baud", "blackboxBaud">>, pin |-> <<"output">>]
MIXER_SOURCE_MAX == 12
Parsed(column, w) ==
  CASE column = "fsMode" -> IF w \in 0..2 THEN w ELSE 0
    [] column = "src" -> Constrain(w, 0, MIXER_SOURCE_MAX - 1)
    [] column = "dst" -> Constrain(w, 0, NOutputs - 1)
    [] column = "rate" -> Constrain(w, -1000, 1000)
    [] OTHER -> w
SetBit(mask, n, b) == mask + (b - Bit(mask, n)) * 2^n
RowWords(p, words) ==
  LET columns == Written[Kind[p]]
  IN [f \in {p \o "." \o columns[k] : k \in DOMAIN columns} |->
        LET k == CHOOSE j \in DOMAIN columns : f = p \o "." \o columns[j]
        IN Cast(Setting[f].type, Parsed(columns[k], words[k]))]
PlainWord(p, word) == Cast(Setting[p].type, IF Setting[p].type = "text" THEN Constrain(word, 0, 1) ELSE word)
Update(cfg, p, words) ==
  IF p \in DOMAIN Kind THEN RowWords(p, words) @@ cfg
  ELSE IF p \in DOMAIN BitOf THEN [cfg EXCEPT ![MaskOf(p)] = SetBit(@, BitOf[p], words[1])]
  ELSE [cfg EXCEPT ![p] = PlainWord(p, words[1])]

\* dump, and what its lines make of configuration cfg when they are typed in:
\* every parameter but the bits changes settings of its own.
Dump(cfg) == [p \in Params |-> Words(cfg, p)]
UpdateBits(mask, bits, words) ==
  LET after[s \in SUBSET bits] == IF s = {} THEN mask ELSE LET p == CHOOSE q \in s : TRUE IN SetBit(after[s \ {p}], BitOf[p], words[p][1])
  IN after[bits]
RowOf == [f \in RowSettings |-> CHOOSE p \in DOMAIN Kind : \E k \in DOMAIN Written[Kind[p]] : f = p \o "." \o Written[Kind[p]][k]]
UpdateAll(cfg, words) ==
  LET rows == [p \in DOMAIN Kind |-> RowWords(p, words[p])]
  IN [f \in DOMAIN cfg |->
        IF f \in Plain THEN PlainWord(f, words[f][1])
        ELSE IF f \in RowSettings THEN rows[RowOf[f]][f]
        ELSE IF f = "featureMask" THEN UpdateBits(cfg[f], DOMAIN FeatureBits, words)
        ELSE IF f = "fieldsMask" THEN UpdateBits(cfg[f], DOMAIN LogBits, words)
        ELSE cfg[f]]
=============================================================================
