---------------------------- MODULE LoggingProofs -----------------------------
(***************************************************************************)
(* The log, for any loggers, channels, configurations, threads and         *)
(* messages: the shortcut of ShouldLog suppresses nothing, two messages    *)
(* with one filter have the same order on all channels, and the files of   *)
(* a channel are bounded; and the files of the configuration it is set     *)
(* up from.                                                                *)
(***************************************************************************)
EXTENDS Logging, FileChannel, Config, TLAPS
\* A map holds the options of the first k lines of a file, each with its first value.
FirstAt(file, i, n) == /\ file[i] # Comment /\ file[i].entry = n
                       /\ \A j \in 1 .. i - 1 : file[j] # Comment => file[j].entry # n

MapOf(m, file, k) ==
    /\ \A n \in DOMAIN m : \E i \in 1 .. k : FirstAt(file, i, n) /\ m[n] = file[i].value
    /\ \A i \in 1 .. k : file[i] # Comment => file[i].entry \in DOMAIN m

\* Where LoadAppConfigs is: what has been read so far, and of which file.
ConfigInv ==
    /\ ConfigTypeOK
    /\ loading = "no" => /\ configOptions = <<>> /\ fileConfigs = <<>> /\ lineNumber = 0
                         /\ ~usingDistConfig
    /\ loading \in {"dist", "conf"} => disk.dist \in Seq(Lines) /\ ~usingDistConfig
    /\ loading = "dist" => /\ configOptions = <<>> /\ lineNumber <= Len(disk.dist)
                           /\ MapOf(fileConfigs, disk.dist, lineNumber)
    /\ loading = "conf" => /\ MapOf(configOptions, disk.dist, Len(disk.dist))
                           /\ disk.conf # Missing => /\ lineNumber <= Len(disk.conf)
                                                     /\ MapOf(fileConfigs, disk.conf, lineNumber)
    /\ Precedence

-------------------------------------------------------------------------------
\* What a map holds depends on the map, the file and the number of lines alone.
LEMMA MapsLater ==
    /\ MapOf(fileConfigs, disk.dist, lineNumber)' <=> MapOf(fileConfigs', disk'.dist, lineNumber')
    /\ MapOf(fileConfigs, disk.conf, lineNumber)' <=> MapOf(fileConfigs', disk'.conf, lineNumber')
    /\ MapOf(configOptions, disk.dist, Len(disk.dist))'
          <=> MapOf(configOptions', disk'.dist, Len(disk'.dist))
BY Zenon DEF MapOf, FirstAt

\* A function from option names to values is a map of the configuration.
LEMMA InMaps ==
    ASSUME NEW names, names \subseteq OptionNames, NEW f \in [names -> OptionValues]
    PROVE  f \in Maps
BY DEF Maps

\* What a map of the configuration is.
LEMMA MapsElim ==
    ASSUME NEW f \in Maps
    PROVE  DOMAIN f \subseteq OptionNames /\ f \in [DOMAIN f -> OptionValues]
BY DEF Maps

\* Before the first line of a file is read its map is empty.
LEMMA NoMap ==
    <<>> \in Maps /\ \A file : MapOf(<<>>, file, 0)
<1>1. <<>> \in [{} -> OptionValues] /\ DOMAIN <<>> = {}
  OBVIOUS
<1>2. <<>> \in Maps
  BY Zenon, <1>1, InMaps
<1>3. ASSUME NEW file PROVE MapOf(<<>>, file, 0)
  BY <1>1 DEF MapOf
<1> QED
  BY <1>2, <1>3

\* The first line with a name is the one First chooses.
LEMMA FirstChosen ==
    ASSUME NEW file \in Seq(Lines), NEW i \in 1 .. Len(file), NEW n, FirstAt(file, i, n)
    PROVE  Sets(file, n) /\ First(file, n) = file[i].value
<1> DEFINE P(k) == /\ file[k] # Comment /\ file[k].entry = n
                   /\ \A j \in 1 .. k - 1 : file[j] # Comment => file[j].entry # n
<1>1. DOMAIN file = 1 .. Len(file) /\ Len(file) \in Nat
  OBVIOUS
<1>2. i \in DOMAIN file /\ P(i)
  BY <1>1 DEF FirstAt
<1>3. ASSUME NEW k \in DOMAIN file, P(k) PROVE k = i
  <2>1. k \in Nat /\ i \in Nat /\ k >= 1 /\ i >= 1
    BY <1>1
  <2>2. CASE k < i
    <3>1. k \in 1 .. i - 1
      BY <2>1, <2>2
    <3> QED
      BY <1>2, <1>3, <3>1
  <2>3. CASE i < k
    <3>1. i \in 1 .. k - 1
      BY <2>1, <2>3
    <3> QED
      BY <1>2, <1>3, <3>1
  <2> QED
    BY <2>1, <2>2, <2>3
<1>4. (CHOOSE k \in DOMAIN file : P(k)) = i
  <2> HIDE DEF P
  <2> QED
    BY <1>2, <1>3
<1>5. First(file, n) = file[i].value
  BY Zenon, <1>4 DEF First
<1>6. Sets(file, n)
  BY <1>2 DEF Sets
<1> QED
  BY <1>5, <1>6

\* A map of a whole file has the names the file sets, with the value First gives.
LEMMA WholeFile ==
    ASSUME NEW file \in Seq(Lines), NEW m, MapOf(m, file, Len(file)), NEW n
    PROVE  /\ n \in DOMAIN m <=> Sets(file, n)
           /\ n \in DOMAIN m => m[n] = First(file, n)
<1>1. ASSUME n \in DOMAIN m PROVE Sets(file, n) /\ m[n] = First(file, n)
  <2>1. PICK i \in 1 .. Len(file) : FirstAt(file, i, n) /\ m[n] = file[i].value
    BY <1>1 DEF MapOf
  <2> QED
    BY <2>1, FirstChosen
<1>2. ASSUME Sets(file, n) PROVE n \in DOMAIN m
  BY <1>2 DEF Sets, MapOf
<1> QED
  BY <1>1, <1>2

\* One more line is read.
LEMMA LineRead ==
    ASSUME NEW file \in Seq(Lines), fileConfigs \in Maps, NEW k \in Nat, k < Len(file),
           MapOf(fileConfigs, file, k)
    PROVE  MapOf(ParseLine(file[k + 1]), file, k + 1) /\ ParseLine(file[k + 1]) \in Maps
<1> DEFINE line == file[k + 1]
           m == ParseLine(line)
<1>1. k + 1 \in 1 .. Len(file) /\ line \in Lines
  OBVIOUS
<1>2. CASE line = Comment \/ line.entry \in DOMAIN fileConfigs
  <2>1. m = fileConfigs
    BY <1>2 DEF ParseLine
  <2>2. ASSUME NEW i \in 1 .. k + 1, file[i] # Comment PROVE file[i].entry \in DOMAIN fileConfigs
    <3>1. i \in 1 .. k \/ i = k + 1
      OBVIOUS
    <3> QED
      BY <1>2, <2>2, <3>1 DEF MapOf
  <2>3. ASSUME NEW n \in DOMAIN fileConfigs
        PROVE  \E i \in 1 .. k + 1 : FirstAt(file, i, n) /\ fileConfigs[n] = file[i].value
    <3>1. PICK i \in 1 .. k : FirstAt(file, i, n) /\ fileConfigs[n] = file[i].value
      BY DEF MapOf
    <3>2. i \in 1 .. k + 1
      OBVIOUS
    <3> QED
      BY <3>1, <3>2
  <2> QED
    BY <2>1, <2>2, <2>3 DEF MapOf
<1>3. CASE ~(line = Comment \/ line.entry \in DOMAIN fileConfigs)
  <2> DEFINE e == line.entry
  <2>1. e \in OptionNames /\ line.value \in OptionValues
    BY <1>1, <1>3 DEF Lines
  <2>2. m = [x \in DOMAIN fileConfigs \cup {e} |->
                IF x \in DOMAIN fileConfigs THEN fileConfigs[x] ELSE line.value]
    BY <1>3 DEF ParseLine
  <2>3. m \in Maps
    <3>1. DOMAIN fileConfigs \subseteq OptionNames
          /\ \A x \in DOMAIN fileConfigs : fileConfigs[x] \in OptionValues
      BY MapsElim
    <3>2. m \in [DOMAIN fileConfigs \cup {e} -> OptionValues]
      BY <2>1, <2>2, <3>1
    <3> QED
      BY SMTT(30), <2>1, <3>1, <3>2, InMaps
  <2>4. ASSUME NEW i \in 1 .. k + 1, file[i] # Comment PROVE file[i].entry \in DOMAIN m
    <3>1. i \in 1 .. k \/ i = k + 1
      OBVIOUS
    <3>2. DOMAIN m = DOMAIN fileConfigs \cup {e}
      BY <2>2
    <3> QED
      BY <2>4, <3>1, <3>2 DEF MapOf
  <2>5. ASSUME NEW n \in DOMAIN m
        PROVE  \E i \in 1 .. k + 1 : FirstAt(file, i, n) /\ m[n] = file[i].value
    <3>1. CASE n \in DOMAIN fileConfigs
      <4>1. PICK i \in 1 .. k : FirstAt(file, i, n) /\ fileConfigs[n] = file[i].value
        BY <3>1 DEF MapOf
      <4>2. i \in 1 .. k + 1 /\ m[n] = fileConfigs[n]
        BY <2>2, <3>1
      <4> QED
        BY <4>1, <4>2
    <3>2. CASE n = e /\ e \notin DOMAIN fileConfigs
      <4>1. m[n] = file[k + 1].value
        BY <2>2, <3>2
      <4>2. \A j \in 1 .. (k + 1) - 1 : file[j] # Comment => file[j].entry # e
        BY <3>2 DEF MapOf
      <4>3. FirstAt(file, k + 1, n)
        BY <1>3, <3>2, <4>2 DEF FirstAt
      <4>4. k + 1 \in 1 .. k + 1
        OBVIOUS
      <4> QED
        BY <4>1, <4>3, <4>4
    <3> QED
      BY Zenon, <1>3, <2>2, <3>1, <3>2
  <2> QED
    BY <2>3, <2>4, <2>5 DEF MapOf
<1> QED
  BY <1>2, <1>3
-------------------------------------------------------------------------------
\* GetOption after .conf.dist alone.
LEMMA DistAlone ==
    ASSUME disk.dist \in Seq(Lines), MapOf(configOptions, disk.dist, Len(disk.dist)),
           NEW n \in OptionNames
    PROVE  GetOption(n) = IF Sets(disk.dist, n) THEN Convert(First(disk.dist, n)) ELSE Default
<1>1. /\ n \in DOMAIN configOptions <=> Sets(disk.dist, n)
      /\ n \in DOMAIN configOptions => configOptions[n] = First(disk.dist, n)
  BY WholeFile
<1> QED
  BY <1>1 DEF GetOption, Convert

\* The options of .conf are put over those of .conf.dist.
LEMMA ConfOverDist ==
    ASSUME disk.dist \in Seq(Lines), MapOf(configOptions, disk.dist, Len(disk.dist)),
           disk.conf \in Seq(Lines), MapOf(fileConfigs, disk.conf, Len(disk.conf)),
           disk' = disk, configOptions' = AddKey(TRUE), NEW n \in OptionNames
    PROVE  GetOption(n)' = IF Sets(disk.conf, n) /\ (Sets(disk.dist, n) \/ n \in LoggingOptions)
                           THEN Convert(First(disk.conf, n))
                           ELSE IF Sets(disk.dist, n) THEN Convert(First(disk.dist, n)) ELSE Default
<1>1. /\ n \in DOMAIN configOptions <=> Sets(disk.dist, n)
      /\ n \in DOMAIN configOptions => configOptions[n] = First(disk.dist, n)
  BY WholeFile
<1>2. /\ n \in DOMAIN fileConfigs <=> Sets(disk.conf, n)
      /\ n \in DOMAIN fileConfigs => fileConfigs[n] = First(disk.conf, n)
  BY WholeFile
<1> DEFINE added == {x \in DOMAIN fileConfigs : x \in DOMAIN configOptions \cup LoggingOptions}
<1>3. configOptions' = [x \in DOMAIN configOptions \cup added |->
                           IF x \in added THEN fileConfigs[x] ELSE configOptions[x]]
  BY DEF AddKey
<1>4. n \in added <=> Sets(disk.conf, n) /\ (Sets(disk.dist, n) \/ n \in LoggingOptions)
  BY Zenon, <1>1, <1>2
<1> HIDE DEF added
<1>5. CASE n \in added
  <2>1. n \in DOMAIN configOptions' /\ configOptions'[n] = First(disk.conf, n)
    BY Zenon, <1>2, <1>3, <1>4, <1>5
  <2> QED
    BY Zenon, <1>4, <1>5, <2>1 DEF GetOption, Convert
<1>6. CASE n \notin added
  <2>1. /\ n \in DOMAIN configOptions' <=> Sets(disk.dist, n)
        /\ n \in DOMAIN configOptions' => configOptions'[n] = First(disk.dist, n)
    BY Zenon, <1>1, <1>3, <1>6
  <2> QED
    BY Zenon, <1>4, <1>6, <2>1 DEF GetOption, Convert
<1> QED
  BY Zenon, <1>5, <1>6

\* What the files say does not change while they are read.
LEMMA SameFiles ==
    ASSUME disk' = disk, NEW n
    PROVE  /\ Sets(disk.dist, n)' = Sets(disk.dist, n) /\ Sets(disk.conf, n)' = Sets(disk.conf, n)
           /\ Convert(First(disk.dist, n))' = Convert(First(disk.dist, n))
           /\ Convert(First(disk.conf, n))' = Convert(First(disk.conf, n))
BY DEF Sets, First, Convert

\* AddKey, for all options of a file: the result is a map again.
LEMMA AddKeyType ==
    ASSUME configOptions \in Maps, fileConfigs \in Maps, NEW isOptional
    PROVE  AddKey(isOptional) \in Maps
<1> DEFINE added == {n \in DOMAIN fileConfigs :
                        isOptional => n \in DOMAIN configOptions \cup LoggingOptions}
<1>1. /\ DOMAIN configOptions \subseteq OptionNames /\ DOMAIN fileConfigs \subseteq OptionNames
      /\ configOptions \in [DOMAIN configOptions -> OptionValues]
      /\ fileConfigs \in [DOMAIN fileConfigs -> OptionValues]
  BY MapsElim
<1>2. AddKey(isOptional) = [n \in DOMAIN configOptions \cup added |->
                               IF n \in added THEN fileConfigs[n] ELSE configOptions[n]]
  BY DEF AddKey
<1>3. added \subseteq DOMAIN fileConfigs
  OBVIOUS
<1> HIDE DEF added
<1>4. AddKey(isOptional) \in [DOMAIN configOptions \cup added -> OptionValues]
  BY <1>1, <1>2, <1>3
<1> QED
  BY <1>1, <1>3, <1>4, InMaps

\* LoadFile: the end of a file, whose options are added.
LEMMA LoadFileStep ==
    ASSUME ConfigAssumption, ConfigInv, LoadFile
    PROVE  ConfigInv'
<1>1. /\ loading \in {"dist", "conf"} /\ disk[loading] # Missing
      /\ lineNumber = Len(disk[loading])
      /\ configOptions' = AddKey(loading = "conf")
      /\ loading' = IF loading = "dist" THEN "conf" ELSE "true"
      /\ fileConfigs' = <<>> /\ lineNumber' = 0
      /\ disk' = disk /\ usingDistConfig' = usingDistConfig
  BY DEF LoadFile
<1>2. ConfigTypeOK /\ disk.dist \in Seq(Lines) /\ ~usingDistConfig
      /\ configOptions \in Maps /\ fileConfigs \in Maps
  BY <1>1 DEF ConfigInv, ConfigTypeOK
<1>3. ConfigTypeOK'
  BY <1>1, <1>2, AddKeyType, NoMap DEF ConfigTypeOK
<1>4. CASE loading = "dist"
  <2>1. MapOf(fileConfigs, disk.dist, Len(disk.dist)) /\ configOptions = <<>>
    BY Zenon, <1>1, <1>4 DEF ConfigInv
  <2>2. configOptions' = [n \in DOMAIN fileConfigs |-> fileConfigs[n]]
    <3> DEFINE added == {n \in DOMAIN fileConfigs :
                            (loading = "conf") => n \in DOMAIN configOptions \cup LoggingOptions}
    <3>1. added = DOMAIN fileConfigs /\ DOMAIN configOptions = {}
      <4>1. DOMAIN configOptions = {}
        BY <2>1
      <4>2. loading # "conf"
        BY <1>4
      <4> QED
        BY Zenon, <4>1, <4>2
    <3>2. configOptions' = [n \in DOMAIN configOptions \cup added |->
                               IF n \in added THEN fileConfigs[n] ELSE configOptions[n]]
      BY Zenon, <1>1 DEF AddKey
    <3> HIDE DEF added
    <3> QED
      BY <3>1, <3>2
  <2>3. configOptions' = fileConfigs
    BY <1>2, <2>2, MapsElim
  <2>4. MapOf(configOptions', disk.dist, Len(disk.dist))
    BY <2>1, <2>3
  <2>5. \A file : MapOf(<<>>, file, 0)
    BY NoMap
  <2>6. disk.conf # Missing => Len(disk.conf) \in Nat
    BY <1>2 DEF ConfigTypeOK, ConfigAssumption
  <2>7. loading' = "conf"
    BY <1>1, <1>4
  <2>8. Precedence'
    BY <2>7 DEF Precedence
  <2>9. /\ disk' = disk /\ lineNumber' = 0 /\ fileConfigs' = <<>> /\ ~usingDistConfig'
        /\ disk.dist \in Seq(Lines)
    BY Zenon, <1>1, <1>4 DEF ConfigInv
  <2>10. disk'.conf # Missing => /\ lineNumber' <= Len(disk'.conf)
                                 /\ MapOf(fileConfigs', disk'.conf, lineNumber')
    BY <2>5, <2>6, <2>9
  <2> QED
    BY Zenon, <1>3, <2>4, <2>7, <2>8, <2>9, <2>10, MapsLater DEF ConfigInv
<1>5. CASE loading = "conf"
  <2>1. /\ MapOf(configOptions, disk.dist, Len(disk.dist)) /\ disk.conf # Missing
        /\ MapOf(fileConfigs, disk.conf, Len(disk.conf))
    BY Zenon, <1>1, <1>5 DEF ConfigInv
  <2>2. disk.conf \in Seq(Lines)
    BY <1>2, <2>1 DEF ConfigTypeOK, ConfigAssumption
  <2>3. configOptions' = AddKey(TRUE) /\ loading' = "true"
    BY Zenon, <1>1, <1>5
  <2>4. ASSUME NEW n \in OptionNames
        PROVE  GetOption(n)' =
                 IF Sets(disk.conf, n) /\ (Sets(disk.dist, n) \/ n \in LoggingOptions)
                 THEN Convert(First(disk.conf, n))
                 ELSE IF Sets(disk.dist, n) THEN Convert(First(disk.dist, n)) ELSE Default
    BY Zenon, <1>1, <1>2, <2>1, <2>2, <2>3, ConfOverDist
  <2>5. Precedence'
    <3>1. SUFFICES ASSUME NEW n \in OptionNames
                   PROVE  (GetOption(n) = IF /\ ~usingDistConfig /\ Sets(disk.conf, n)
                                             /\ Sets(disk.dist, n) \/ n \in LoggingOptions
                                          THEN Convert(First(disk.conf, n))
                                          ELSE IF Sets(disk.dist, n)
                                               THEN Convert(First(disk.dist, n)) ELSE Default)'
      BY Zenon DEF Precedence
    <3> QED
      BY Zenon, <1>1, <1>2, <2>4, SameFiles
  <2> QED
    BY <1>3, <2>3, <2>5 DEF ConfigInv
<1> QED
  BY <1>1, <1>4, <1>5

\* ParseFile: one line more is read.
LEMMA ParseFileStep ==
    ASSUME ConfigAssumption, ConfigInv, ParseFile
    PROVE  ConfigInv'
<1>1. /\ loading \in {"dist", "conf"} /\ disk[loading] # Missing
      /\ lineNumber < Len(disk[loading]) /\ lineNumber' = lineNumber + 1
      /\ fileConfigs' = ParseLine(disk[loading][lineNumber + 1])
      /\ disk' = disk /\ configOptions' = configOptions /\ loading' = loading
      /\ usingDistConfig' = usingDistConfig
  BY Zenon DEF ParseFile
<1> DEFINE file == disk[loading]
<1>2. /\ ConfigTypeOK /\ file \in Seq(Lines) /\ lineNumber \in Nat /\ fileConfigs \in Maps
      /\ MapOf(fileConfigs, file, lineNumber)
  BY Zenon, <1>1 DEF ConfigInv, ConfigTypeOK, ConfigAssumption
<1>3. MapOf(fileConfigs', file, lineNumber') /\ fileConfigs' \in Maps
  BY <1>1, <1>2, LineRead
<1>4. lineNumber' \in Nat /\ lineNumber' <= Len(file)
  BY <1>1, <1>2
<1>5. ConfigTypeOK'
  BY <1>1, <1>2, <1>3, <1>4 DEF ConfigTypeOK
<1>6. Precedence'
  BY <1>1 DEF Precedence
<1>7. (disk.dist \in Seq(Lines) /\ ~usingDistConfig)'
  BY <1>1 DEF ConfigInv
<1>8. CASE loading = "dist"
  BY Zenon, <1>1, <1>3, <1>4, <1>5, <1>6, <1>7, <1>8, MapsLater DEF ConfigInv
<1>9. CASE loading = "conf"
  BY Zenon, <1>1, <1>3, <1>4, <1>5, <1>6, <1>7, <1>9, MapsLater DEF ConfigInv
<1> QED
  BY Zenon, <1>1, <1>8, <1>9

\* What is known while the files are read, and afterwards.
THEOREM ConfigInvHolds == ConfigSpec => []ConfigInv
<1> USE ConfigAssumption
<1>1. ConfigInit => ConfigInv
  <2>1. SUFFICES ASSUME ConfigInit PROVE ConfigInv
    OBVIOUS
  <2>2. ConfigTypeOK
    BY Zenon, <2>1, NoMap DEF ConfigInit, ConfigTypeOK
  <2> QED
    BY <2>1, <2>2 DEF ConfigInit, ConfigInv, Precedence
<1>2. ConfigInv /\ [ConfigNext]_configVars => ConfigInv'
  <2>1. SUFFICES ASSUME ConfigInv, [ConfigNext]_configVars PROVE ConfigInv'
    OBVIOUS
  <2>2. CASE LoadInitial
    <3>1. /\ loading = "no" /\ loading' = IF disk.dist = Missing THEN "false" ELSE "dist"
          /\ disk' = disk /\ configOptions' = configOptions /\ fileConfigs' = fileConfigs
          /\ lineNumber' = lineNumber /\ usingDistConfig' = usingDistConfig
      BY <2>2 DEF LoadInitial
    <3>2. /\ ConfigTypeOK /\ configOptions = <<>> /\ fileConfigs = <<>> /\ lineNumber = 0
      BY Zenon, <2>1, <3>1 DEF ConfigInv
    <3>3. ConfigTypeOK'
      BY <3>1, <3>2 DEF ConfigTypeOK
    <3>4. Precedence'
      BY <3>1 DEF Precedence
    <3>5. disk.dist # Missing => disk.dist \in Seq(Lines) /\ Len(disk.dist) \in Nat
      BY <3>2 DEF ConfigTypeOK, ConfigAssumption
    <3>6. MapOf(fileConfigs', disk.dist, lineNumber')
      BY <3>1, <3>2, NoMap
    <3>7. ~usingDistConfig
      BY <2>1, <3>1 DEF ConfigInv
    <3> QED
      BY <3>1, <3>2, <3>3, <3>4, <3>5, <3>6, <3>7, MapsLater DEF ConfigInv
  <2>3. CASE ParseFile
    BY <2>1, <2>3, ParseFileStep
  <2>4. CASE FailToParse
    <3>1. /\ loading \in {"dist", "conf"}
          /\ loading' = IF loading = "conf" THEN "true" ELSE "false"
          /\ usingDistConfig' = (loading = "conf")
          /\ disk' = disk /\ configOptions' = configOptions /\ fileConfigs' = fileConfigs
          /\ lineNumber' = lineNumber
      BY <2>4 DEF FailToParse, NotLoaded
    <3>2. ConfigTypeOK'
      BY <2>1, <3>1 DEF ConfigInv, ConfigTypeOK
    <3>3. Precedence'
      <4>1. CASE loading = "dist"
        BY <3>1, <4>1 DEF Precedence
      <4>2. CASE loading = "conf"
        <5>1. ASSUME NEW n \in OptionNames
              PROVE  GetOption(n) = IF Sets(disk.dist, n) THEN Convert(First(disk.dist, n))
                                    ELSE Default
          BY Zenon, <2>1, <4>2, DistAlone DEF ConfigInv
        <5> QED
          <6>1. SUFFICES ASSUME NEW n \in OptionNames
                         PROVE  (GetOption(n) = IF Sets(disk.dist, n)
                                                THEN Convert(First(disk.dist, n)) ELSE Default)'
            BY Zenon, <3>1, <4>2 DEF Precedence
          <6>2. GetOption(n)' = GetOption(n)
            BY <3>1 DEF GetOption
          <6> QED
            BY Zenon, <3>1, <5>1, <6>2, SameFiles
      <4> QED
        BY <3>1, <4>1, <4>2
    <3> QED
      BY Zenon, <3>1, <3>2, <3>3 DEF ConfigInv
  <2>5. CASE LoadFile
    BY <2>1, <2>5, LoadFileStep
  <2>6. CASE UNCHANGED configVars
    <3>1. /\ disk' = disk /\ configOptions' = configOptions /\ fileConfigs' = fileConfigs
          /\ lineNumber' = lineNumber /\ usingDistConfig' = usingDistConfig /\ loading' = loading
      BY <2>6 DEF configVars
    <3>2. ConfigTypeOK'
      BY <2>1, <3>1 DEF ConfigInv, ConfigTypeOK
    <3>3. Precedence'
      <4>1. SUFFICES ASSUME loading = "true", NEW n \in OptionNames
                     PROVE  (GetOption(n) = IF /\ ~usingDistConfig /\ Sets(disk.conf, n)
                                               /\ Sets(disk.dist, n) \/ n \in LoggingOptions
                                            THEN Convert(First(disk.conf, n))
                                            ELSE IF Sets(disk.dist, n)
                                                 THEN Convert(First(disk.dist, n)) ELSE Default)'
        BY Zenon, <3>1 DEF Precedence
      <4>2. GetOption(n)' = GetOption(n)
        BY <3>1 DEF GetOption
      <4> QED
        BY Zenon, <2>1, <3>1, <4>1, <4>2, SameFiles DEF ConfigInv, Precedence
    <3> QED
      BY <2>1, <3>1, <3>2, <3>3, MapsLater DEF ConfigInv
  <2> QED
    BY <2>1, <2>2, <2>3, <2>4, <2>5, <2>6 DEF ConfigNext
<1> QED
  BY <1>1, <1>2, PTL DEF ConfigSpec

\* GetOption gives the value of .conf if all of it was read and it may set the option,
\* otherwise that of .conf.dist, otherwise the default: for any two files and wherever
\* reading them has failed.
THEOREM ConfigPrecedence == ConfigSpec => []Precedence
<1>1. ConfigInv => Precedence
  BY DEF ConfigInv
<1> QED
  BY <1>1, ConfigInvHolds, PTL
-------------------------------------------------------------------------------

\* Levels: the strengthening of NothingSuppressed.
LevelInv == /\ config \in LogConfigs
            /\ highestLogLevel \in Levels
            /\ DOMAIN loggers \subseteq LoggerNames
            /\ \A l \in DOMAIN loggers : loggers[l].level \in Levels
            /\ HighestCoversLoggers

\* A set of levels that has Fatal in it has a largest element.
LEMMA LargestLevel ==
    ASSUME NEW S \in SUBSET Levels, Fatal \in S
    PROVE  \E n \in S : n >= Fatal /\ \A k \in S : k <= n
<1> USE DEF Levels, MAX_LOG_LEVEL, Fatal
<1>1. CASE 7 \in S
  BY <1>1
<1>2. CASE 6 \in S /\ 7 \notin S
  BY <1>2
<1>3. CASE 5 \in S /\ 6 \notin S /\ 7 \notin S
  BY <1>3
<1>4. CASE 4 \in S /\ 5 \notin S /\ 6 \notin S /\ 7 \notin S
  BY <1>4
<1>5. CASE 3 \in S /\ 4 \notin S /\ 5 \notin S /\ 6 \notin S /\ 7 \notin S
  BY <1>5
<1>6. CASE 2 \in S /\ 3 \notin S /\ 4 \notin S /\ 5 \notin S /\ 6 \notin S /\ 7 \notin S
  BY <1>6
<1>7. CASE 2 \notin S /\ 3 \notin S /\ 4 \notin S /\ 5 \notin S /\ 6 \notin S /\ 7 \notin S
  BY <1>7
<1> QED
  BY <1>1, <1>2, <1>3, <1>4, <1>5, <1>6, <1>7

\* highestLogLevel after CreateLoggerFromConfig has made all loggers.
LEMMA HighestFacts ==
    ASSUME NEW created, \A l \in DOMAIN created : created[l].level \in Levels
    PROVE  HighestOf(created) \in Levels /\ \A l \in DOMAIN created : created[l].level <= HighestOf(created)
<1> DEFINE S == {Fatal} \cup {created[l].level : l \in DOMAIN created}
<1>1. S \in SUBSET Levels
  BY DEF Levels, MAX_LOG_LEVEL, Fatal
<1>2. PICK n \in S : n >= Fatal /\ \A k \in S : k <= n
  BY Zenon, <1>1, LargestLevel
<1>3. \E k \in Levels : /\ k = Fatal \/ \E l \in DOMAIN created : created[l].level = k
                        /\ k >= Fatal /\ \A l \in DOMAIN created : created[l].level <= k
  BY <1>1, <1>2
<1> QED
  BY <1>3 DEF HighestOf

\* A step of the log keeps highestLogLevel above the levels of the loggers.
LEMMA LevelStep == LevelInv /\ [LogNext]_logVars => LevelInv'
<1> SUFFICES ASSUME LevelInv, [LogNext]_logVars PROVE LevelInv'
  OBVIOUS
<1> USE DEF LevelInv, HighestCoversLoggers
<1>a. ASSUME UNCHANGED <<config, loggers, highestLogLevel>> PROVE LevelInv'
  BY <1>a
<1>1. CASE Initialize
  <2>1. /\ UNCHANGED config /\ loggers' = ReadLoggersFromConfig(DOMAIN channels')
        /\ highestLogLevel' = HighestOf(loggers')
    BY <1>1 DEF Initialize, LoadFromConfig
  <2>2. /\ DOMAIN loggers' \subseteq DOMAIN config.loggers
        /\ \A l \in DOMAIN loggers' : /\ CreateLoggerFromConfig(config.loggers[l])
                                      /\ loggers'[l].level = config.loggers[l].level
    BY Zenon, <2>1 DEF ReadLoggersFromConfig
  <2>3. \A l \in DOMAIN loggers' : l \in LoggerNames /\ loggers'[l].level \in Levels
    BY SMTT(30), <2>2, LoggingAssumption
       DEF CreateLoggerFromConfig, LoggerOptions, Levels, MAX_LOG_LEVEL
  <2> QED
    BY Zenon, <2>1, <2>3, HighestFacts
<1>2. ASSUME NEW value \in BOOLEAN, UsingDefaultLogs(value) PROVE LevelInv'
  <2>1. CASE value
    <3>1. PICK console \in ChannelNames :
              /\ loggers' = [l \in {"root"} |-> [level |-> Debug, channels |-> <<console>>]]
              /\ highestLogLevel' = Debug /\ config' = config
      BY Zenon, <1>2, <2>1 DEF UsingDefaultLogs
    <3>2. DOMAIN loggers' = {"root"} /\ loggers'["root"].level = Debug
      BY <3>1
    <3>3. Debug \in Levels /\ Debug <= Debug /\ "root" \in LoggerNames
      BY LoggingAssumption DEF Debug, Levels, MAX_LOG_LEVEL
    <3> QED
      BY Zenon, <3>1, <3>2, <3>3
  <2>2. CASE ~value
    BY Zenon, <1>2, <2>2 DEF UsingDefaultLogs
  <2> QED
    BY Zenon, <2>1, <2>2
<1>3. ASSUME NEW l \in LoggerNames, NEW n \in Levels, SetLoggerLevel(l, n) PROVE LevelInv'
  <2>1. /\ DOMAIN loggers' = DOMAIN loggers
        /\ \A k \in DOMAIN loggers : loggers'[k].level = loggers[k].level \/ loggers'[k].level = n
    BY <1>3 DEF SetLoggerLevel
  <2>2. /\ UNCHANGED config /\ highestLogLevel' \in Levels
        /\ highestLogLevel <= highestLogLevel' /\ n <= highestLogLevel'
    BY <1>3 DEF SetLoggerLevel, Levels
  <2> QED
    BY <2>1, <2>2 DEF Levels, MAX_LOG_LEVEL
<1>4. ASSUME NEW c \in ChannelNames, NEW n \in Levels, SetChannelLevel(c, n) PROVE LevelInv'
  BY <1>4, <1>a DEF SetChannelLevel
<1>5. ASSUME NEW l \in LoggerNames, NEW c \in ChannelNames, DeleteChannel(l, c) PROVE LevelInv'
  <2>1. /\ DOMAIN loggers' = DOMAIN loggers /\ UNCHANGED <<config, highestLogLevel>>
        /\ \A k \in DOMAIN loggers : loggers'[k].level = loggers[k].level
    BY <1>5 DEF DeleteChannel
  <2> QED
    BY <2>1
<1>6. ASSUME NEW t \in Callers, NEW m \in Messages, OutMessage(t, m) PROVE LevelInv'
  BY Zenon, <1>6, <1>a DEF OutMessage
<1>7. ASSUME NEW t \in Callers, Steps(t) PROVE LevelInv'
  BY <1>7, <1>a DEF Steps, LockLogger, WriteNext, EndOfWrite
<1>8. CASE UNCHANGED logVars
  BY Zenon, <1>8, <1>a DEF logVars
<1> QED
  BY Zenon, <1>1, <1>2, <1>3, <1>4, <1>5, <1>6, <1>7, <1>8 DEF LogNext

\* A message that the logger of its filter admits is never stopped by the comparison with
\* highestLogLevel, whatever was loaded and set, in any order.
THEOREM ShortcutIsSound == LogSpec => []NothingSuppressed
<1>1. LogInit => LevelInv
  BY DEF LogInit, LevelInv, HighestCoversLoggers, Levels, MAX_LOG_LEVEL, Disabled
<1>2. LevelInv => NothingSuppressed
  <2> SUFFICES ASSUME LevelInv, NEW m \in Messages, NEW l \in DOMAIN loggers,
                      l = GetLoggerByType(Filter[m]), loggers[l].level >= LevelOf[m]
               PROVE  ShouldLog(Filter[m], LevelOf[m])
    BY DEF NothingSuppressed
  <2>1. loggers[l].level \in 0 .. 7 /\ LevelOf[m] \in 1 .. 7 /\ highestLogLevel \in 0 .. 7
    BY LoggingAssumption DEF LevelInv, Levels, MAX_LOG_LEVEL, Disabled
  <2>2. loggers[l].level <= highestLogLevel
    BY DEF LevelInv, HighestCoversLoggers
  <2> QED
    BY <2>1, <2>2 DEF ShouldLog, Disabled
<1> QED
  BY <1>1, <1>2, LevelStep, PTL DEF LogSpec

-------------------------------------------------------------------------------
\* Order: a caller that writes holds the mutex of the logger its filter has, so that two
\* callers whose messages have one filter never write at once.
Calls == {Idle} \cup [at : Nat, msg : Messages, logger : LoggerNames]
On(c, m) == \E i \in DOMAIN out[c] : out[c][i] = m
CallsOK == \A t \in Callers : call[t] # Idle =>
               /\ call[t].msg \in said
               /\ call[t].logger = GetLoggerByType(Filter[call[t].msg])
               /\ call[t].at = Waits => \A c \in ChannelNames : ~On(c, call[t].msg)
Holds == \A t \in Callers : Writing(t) => mutex[call[t].logger] = t
Distinct == \A t, u \in Callers :
                t # u /\ call[t] # Idle /\ call[u] # Idle => call[t].msg # call[u].msg
WrittenWasSaid == \A c \in ChannelNames, m \in Messages : On(c, m) => m \in said
NothingAfter(t) == \A d \in ChannelNames, n \in Messages :
                       n # call[t].msg /\ Filter[n] = Filter[call[t].msg] => ~Before(d, call[t].msg, n)
LastIsNewest == \A t \in Callers : Writing(t) => NothingAfter(t)

OrderInv == /\ said \subseteq Messages
            /\ call \in [Callers -> Calls]
            /\ mutex \in [LoggerNames -> Callers \cup {"free"}]
            /\ out \in [ChannelNames -> Seq(Messages)]
            /\ CallsOK /\ Holds /\ Distinct /\ WrittenWasSaid /\ LastIsNewest /\ SameOrder

\* A caller is idle or has all of a call.
LEMMA CallType ==
    ASSUME OrderInv, NEW t \in Callers
    PROVE  /\ Idle.at = -1
           /\ call[t] # Idle => call[t] \in [at : Nat, msg : Messages, logger : LoggerNames]
           /\ call[t].at = Waits => call[t] # Idle
BY DEF OrderInv, Calls, Idle, Waits

\* What is on a channel after Append, and in which order.
LEMMA AppendOrder ==
    ASSUME NEW s \in Seq(Messages), NEW m \in Messages
    PROVE  /\ Append(s, m) \in Seq(Messages)
           /\ \A n : (\E i \in DOMAIN Append(s, m) : Append(s, m)[i] = n)
                        => n = m \/ \E i \in DOMAIN s : s[i] = n
           /\ \A x, n : (\E i, j \in DOMAIN Append(s, m) :
                            i < j /\ Append(s, m)[i] = x /\ Append(s, m)[j] = n)
                        => n = m \/ \E i, j \in DOMAIN s : i < j /\ s[i] = x /\ s[j] = n
<1>1. /\ Append(s, m) \in Seq(Messages) /\ DOMAIN Append(s, m) = 1 .. Len(s) + 1
      /\ DOMAIN s = 1 .. Len(s) /\ Len(s) \in Nat
      /\ \A i \in 1 .. Len(s) : Append(s, m)[i] = s[i]
      /\ Append(s, m)[Len(s) + 1] = m
  OBVIOUS
<1>2. \A i \in DOMAIN Append(s, m) : i \in DOMAIN s \/ i = Len(s) + 1
  BY <1>1
<1>3. ASSUME NEW n, NEW i \in DOMAIN Append(s, m), Append(s, m)[i] = n
      PROVE  n = m \/ \E k \in DOMAIN s : s[k] = n
  BY <1>1, <1>2, <1>3
<1>4. ASSUME NEW x, NEW n, NEW i \in DOMAIN Append(s, m), NEW j \in DOMAIN Append(s, m),
             i < j, Append(s, m)[i] = x, Append(s, m)[j] = n
      PROVE  n = m \/ \E k, l \in DOMAIN s : k < l /\ s[k] = x /\ s[l] = n
  <2>1. CASE j = Len(s) + 1
    BY <1>1, <1>4, <2>1
  <2>2. CASE j \in DOMAIN s
    BY <1>1, <1>2, <1>4, <2>2
  <2> QED
    BY <1>2, <2>1, <2>2
<1> QED
  BY <1>1, <1>3, <1>4

\* A step that writes to no channel.
LEMMA SilentStep ==
    ASSUME OrderInv, out' = out, said \subseteq said'
    PROVE  /\ out' \in [ChannelNames -> Seq(Messages)] /\ WrittenWasSaid' /\ SameOrder'
           /\ \A t \in Callers : Writing(t)' /\ Writing(t) /\ call'[t] = call[t] => NothingAfter(t)'
<1>1. \A c, m, n : Before(c, m, n)' <=> Before(c, m, n)
  BY Zenon DEF Before
<1>2. \A c, m : On(c, m)' <=> On(c, m)
  BY Zenon DEF On
<1>3. out' \in [ChannelNames -> Seq(Messages)]
  BY Zenon DEF OrderInv
<1>4. WrittenWasSaid'
  BY Zenon, <1>2 DEF OrderInv, WrittenWasSaid
<1>5. SameOrder'
  BY Zenon, <1>1 DEF OrderInv, SameOrder
<1>6. ASSUME NEW t \in Callers, Writing(t), call'[t] = call[t] PROVE NothingAfter(t)'
  <2>1. NothingAfter(t)
    BY Zenon, <1>6 DEF OrderInv, LastIsNewest
  <2>2. PICK m : m = call[t].msg
    OBVIOUS
  <2>3. \A d \in ChannelNames, n \in Messages :
            n # m /\ Filter[n] = Filter[m] => ~Before(d, m, n)'
    BY Zenon, <1>1, <2>1, <2>2 DEF NothingAfter
  <2>4. call'[t].msg = m
    BY Zenon, <1>6, <2>2
  <2> QED
    BY <2>3, <2>4 DEF NothingAfter, Before
<1> QED
  BY Zenon, <1>3, <1>4, <1>5, <1>6

\* A step that leaves calls, mutexes, channels and the names of the loggers as they are.
LEMMA QuietStep ==
    ASSUME OrderInv, UNCHANGED <<mutex, call, said, out>>,
           DOMAIN loggers' = DOMAIN loggers \/ NobodyLogs
    PROVE  OrderInv'
<1>1. /\ (said \subseteq Messages)' /\ (call \in [Callers -> Calls])'
      /\ (mutex \in [LoggerNames -> Callers \cup {"free"}])'
      /\ (out \in [ChannelNames -> Seq(Messages)])' /\ WrittenWasSaid' /\ SameOrder' /\ Distinct'
  BY Zenon, SilentStep DEF OrderInv, Distinct
<1>2. Holds' /\ LastIsNewest'
  BY Zenon, SilentStep DEF OrderInv, Holds, LastIsNewest, Writing
<1>3. CallsOK'
  <2>1. CASE DOMAIN loggers' = DOMAIN loggers
    <3>1. \A f : GetLoggerByType(f)' = GetLoggerByType(f)
      BY <2>1 DEF GetLoggerByType
    <3> QED
      BY Zenon, <3>1 DEF OrderInv, CallsOK, On
  <2>2. CASE NobodyLogs
    BY Zenon, <2>2 DEF NobodyLogs, CallsOK
  <2> QED
    BY <2>1, <2>2
<1> QED
  BY <1>1, <1>2, <1>3 DEF OrderInv

\* LOG_*: the message is new, so no channel has it and no other caller logs it.
LEMMA OutMessageStep ==
    ASSUME OrderInv, LevelInv, NEW t \in Callers, NEW m \in Messages, OutMessage(t, m)
    PROVE  OrderInv'
<1>1. /\ call[t] = Idle /\ m \notin said /\ said' = said \cup {m}
      /\ UNCHANGED <<mutex, out, loggers>>
  BY Zenon DEF OutMessage
<1>2. CASE call' = call
  <2>1. CallsOK'
    BY Zenon, <1>1, <1>2 DEF OrderInv, CallsOK, On, GetLoggerByType
  <2>2. Holds' /\ LastIsNewest' /\ Distinct'
    BY Zenon, <1>1, <1>2, SilentStep DEF OrderInv, Holds, LastIsNewest, Writing, Distinct
  <2> QED
    BY Zenon, <1>1, <1>2, <2>1, <2>2, SilentStep DEF OrderInv
<1>3. CASE ShouldLog(Filter[m], LevelOf[m])
  <2> DEFINE l == GetLoggerByType(Filter[m])
  <2> DEFINE new == [at |-> Waits, msg |-> m, logger |-> l]
  <2>1. l \in LoggerNames
    BY Zenon, <1>3 DEF ShouldLog, LevelInv
  <2>2. call' = [call EXCEPT ![t] = new]
    BY Zenon, <1>3 DEF OutMessage
  <2>3. new \in Calls /\ new.at = Waits /\ new.msg = m /\ new.logger = l
    BY <2>1 DEF Calls, Waits
  <2> HIDE DEF new, l
  <2>4. call' \in [Callers -> Calls] /\ call'[t] = new /\ \A u \in Callers \ {t} : call'[u] = call[u]
    BY <2>2, <2>3 DEF OrderInv
  <2>5. \A c \in ChannelNames : ~On(c, m)
    BY <1>1 DEF OrderInv, WrittenWasSaid
  <2>6. \A f : GetLoggerByType(f)' = GetLoggerByType(f)
    BY <1>1 DEF GetLoggerByType
  <2>7. \A c, x : On(c, x)' <=> On(c, x)
    BY <1>1 DEF On
  <2>8. CallsOK'
    <3>1. ASSUME NEW u \in Callers, call'[u] # Idle
          PROVE  /\ call'[u].msg \in said' /\ call'[u].logger = GetLoggerByType(Filter[call'[u].msg])
                 /\ call'[u].at = Waits => \A c \in ChannelNames : ~On(c, call'[u].msg)
      <4>1. CASE u = t
        BY Zenon, <1>1, <2>3, <2>4, <2>5, <4>1 DEF l
      <4>2. CASE u # t
        BY Zenon, <1>1, <2>4, <3>1, <4>2 DEF OrderInv, CallsOK
      <4> QED
        BY Zenon, <4>1, <4>2
    <3> QED
      BY Zenon, <1>1, <3>1 DEF CallsOK, On, GetLoggerByType
  <2>9. Distinct'
    <3>1. \A u \in Callers : call[u] # Idle => call[u].msg # m
      BY Zenon, <1>1 DEF OrderInv, CallsOK
    <3> QED
      BY <2>3, <2>4, <3>1 DEF OrderInv, Distinct
  <2>10. \A u \in Callers : Writing(u)' => u # t /\ Writing(u) /\ call'[u] = call[u]
    BY <2>3, <2>4 DEF Writing
  <2>11. Holds' /\ LastIsNewest'
    BY Zenon, <1>1, <2>10, SilentStep DEF OrderInv, Holds, LastIsNewest
  <2> QED
    BY Zenon, <1>1, <2>4, <2>8, <2>9, <2>11, SilentStep DEF OrderInv
<1> QED
  BY Zenon, <1>2, <1>3 DEF OutMessage

\* LOG_* is over and the mutex, which nobody else had, is free.
LEMMA ReturnStep ==
    ASSUME OrderInv, NEW t \in Callers, call[t] # Idle, mutex[call[t].logger] \in {"free", t},
           Return(t), UNCHANGED <<loggers, said, out>>
    PROVE  OrderInv'
<1>1. /\ call' \in [Callers -> Calls] /\ call'[t] = Idle
      /\ \A u \in Callers \ {t} : call'[u] = call[u]
  BY DEF Return, OrderInv, Calls
<1>2. /\ mutex' \in [LoggerNames -> Callers \cup {"free"}]
      /\ \A l \in LoggerNames : l # call[t].logger => mutex'[l] = mutex[l]
  BY Zenon DEF Return, OrderInv
<1>3. \A u \in Callers : Writing(u)' => u # t /\ Writing(u) /\ call'[u] = call[u]
  BY Zenon, <1>1 DEF Writing
<1>4. Holds'
  <2> SUFFICES ASSUME NEW u \in Callers, Writing(u)' PROVE mutex'[call'[u].logger] = u
    BY Zenon DEF Holds
  <2>1. u # t /\ Writing(u) /\ call'[u] = call[u] /\ mutex[call[u].logger] = u
    BY Zenon, <1>3 DEF OrderInv, Holds
  <2>2. call[u].logger \in LoggerNames /\ u # "free"
    BY Zenon, <2>1, CallType, LoggingAssumption DEF Writing
  <2> QED
    BY Zenon, <1>2, <2>1, <2>2
<1>5. LastIsNewest'
  BY Zenon, <1>3, SilentStep DEF LastIsNewest
<1>6. CallsOK'
  <2>1. \A f : GetLoggerByType(f)' = GetLoggerByType(f)
    BY Zenon DEF GetLoggerByType
  <2> QED
    BY <1>1, <2>1 DEF OrderInv, CallsOK, On
<1>7. Distinct'
  <2>1. \A u \in Callers : call'[u] # Idle => u # t /\ call'[u] = call[u]
    BY Zenon, <1>1
  <2> QED
    BY ZenonT(30), <2>1 DEF OrderInv, Distinct
<1> QED
  BY Zenon, <1>1, <1>2, <1>4, <1>5, <1>6, <1>7, SilentStep DEF OrderInv

\* A caller takes or keeps the mutex and goes to its next channel; what it writes, if it
\* does, comes last on a channel.
LEMMA AdvanceStep ==
    ASSUME OrderInv, NEW t \in Callers, call[t] # Idle, NothingAfter(t),
           NEW k \in Nat \ {Waits}, call' = [call EXCEPT ![t].at = k],
           mutex[call[t].logger] \in {"free", t}, mutex' = [mutex EXCEPT ![call[t].logger] = t],
           UNCHANGED <<loggers, said>>,
           out' \in [ChannelNames -> Seq(Messages)],
           \A c \in ChannelNames, x \in Messages : On(c, x)' => On(c, x) \/ x = call[t].msg,
           \A c \in ChannelNames, x, n \in Messages :
               Before(c, x, n)' => Before(c, x, n) \/ n = call[t].msg
    PROVE  OrderInv'
<1> DEFINE m == call[t].msg
           l == call[t].logger
<1>1. /\ call[t] \in [at : Nat, msg : Messages, logger : LoggerNames]
      /\ m \in Messages /\ l \in LoggerNames /\ m \in said /\ l = GetLoggerByType(Filter[m])
  BY CallType DEF OrderInv, CallsOK
<1>2. /\ call' \in [Callers -> Calls] /\ \A u \in Callers \ {t} : call'[u] = call[u]
      /\ call'[t] # Idle /\ call'[t].at = k /\ call'[t].msg = m /\ call'[t].logger = l
  BY SMTT(30), <1>1 DEF OrderInv, Calls, Idle
<1>3. /\ mutex' \in [LoggerNames -> Callers \cup {"free"}] /\ mutex'[l] = t
      /\ \A j \in LoggerNames \ {l} : mutex'[j] = mutex[j]
  BY <1>1 DEF OrderInv
<1>4. ASSUME NEW u \in Callers \ {t}, call[u] # Idle
      PROVE  /\ call[u].msg \in Messages /\ call[u].logger \in LoggerNames /\ call[u].msg # m
             /\ Writing(u) => call[u].logger # l /\ Filter[call[u].msg] # Filter[m]
  <2>1. call[u].msg \in Messages /\ call[u].logger \in LoggerNames
    BY <1>4, CallType
  <2>2. call[u].msg # m /\ call[u].logger = GetLoggerByType(Filter[call[u].msg])
    BY <1>4 DEF OrderInv, Distinct, CallsOK
  <2>3. ASSUME Writing(u) PROVE call[u].logger # l
    BY <2>3, LoggingAssumption DEF OrderInv, Holds
  <2> QED
    BY <1>1, <2>1, <2>2, <2>3
<1>5. CallsOK'
  <2>1. \A f : GetLoggerByType(f)' = GetLoggerByType(f)
    BY DEF GetLoggerByType
  <2>2. ASSUME NEW u \in Callers, call'[u] # Idle
        PROVE  /\ call'[u].msg \in said /\ call'[u].logger = GetLoggerByType(Filter[call'[u].msg])
               /\ call'[u].at = Waits => \A c \in ChannelNames : ~On(c, call[u].msg)'
    <3>1. CASE u = t
      BY <1>1, <1>2, <3>1
    <3>2. CASE u # t
      <4>1. call'[u] = call[u] /\ call[u] # Idle /\ call[u].msg # m /\ call[u].msg \in Messages
        BY <1>2, <1>4, <2>2, <3>2
      <4>2. /\ call[u].msg \in said /\ call[u].logger = GetLoggerByType(Filter[call[u].msg])
            /\ call[u].at = Waits => \A c \in ChannelNames : ~On(c, call[u].msg)
        BY <4>1 DEF OrderInv, CallsOK
      <4>3. ASSUME NEW c \in ChannelNames, NEW x \in Messages, x # m, ~On(c, x) PROVE ~On(c, x)'
        BY <4>3
      <4>4. ASSUME call'[u].at = Waits, NEW c \in ChannelNames PROVE ~On(c, call[u].msg)'
        <5>1. PICK x \in Messages : x = call[u].msg
          BY <4>1
        <5>2. ~On(c, x)'
          BY <4>1, <4>2, <4>3, <4>4, <5>1
        <5> QED
          BY <4>1, <5>1, <5>2 DEF On
      <4> QED
        BY <4>1, <4>2, <4>4
    <3> QED
      BY <3>1, <3>2
  <2> QED
    BY <2>1, <2>2 DEF CallsOK, On
<1>6. Holds'
  <2> SUFFICES ASSUME NEW u \in Callers, Writing(u)' PROVE mutex'[call'[u].logger] = u
    BY DEF Holds
  <2>1. CASE u = t
    BY <1>2, <1>3, <2>1
  <2>2. CASE u # t
    <3>1. call'[u] = call[u] /\ Writing(u) /\ mutex[call[u].logger] = u
      BY <1>2, <2>2 DEF Writing, OrderInv, Holds
    <3> QED
      BY <1>3, <1>4, <2>2, <3>1 DEF Writing
  <2> QED
    BY <2>1, <2>2
<1>7. LastIsNewest'
  <2> SUFFICES ASSUME NEW u \in Callers, Writing(u)', NEW d \in ChannelNames, NEW n \in Messages,
                      n # call'[u].msg, Filter[n] = Filter[call'[u].msg],
                      NEW x \in Messages, x = call'[u].msg, Before(d, x, n)'
               PROVE  FALSE
    <3>1. \A u \in Callers : call'[u] # Idle => call'[u].msg \in Messages
      BY Zenon, <1>1, <1>2, <1>4
    <3> QED
      BY <3>1 DEF LastIsNewest, NothingAfter, Writing, Before
  <2>1. Before(d, x, n) \/ n = m
    OBVIOUS
  <2>2. CASE u = t
    BY <1>2, <2>1, <2>2 DEF NothingAfter, Before
  <2>3. CASE u # t
    <3>1. call'[u] = call[u] /\ Writing(u) /\ x = call[u].msg /\ Filter[x] # Filter[m]
      BY <1>2, <1>4, <2>3 DEF Writing
    <3>2. ~Before(d, x, n)
      BY SMTT(30), <3>1 DEF OrderInv, LastIsNewest, NothingAfter, Before
    <3> QED
      BY <2>1, <3>1, <3>2
  <2> QED
    BY <2>2, <2>3
<1>8. SameOrder'
  <2> SUFFICES ASSUME NEW c \in ChannelNames, NEW d \in ChannelNames,
                      NEW x \in Messages, NEW n \in Messages, x # n, Filter[x] = Filter[n],
                      Before(c, x, n)', Before(d, n, x)'
               PROVE  FALSE
    BY DEF SameOrder
  <2>1. Before(c, x, n) \/ n = m
    OBVIOUS
  <2>2. Before(d, n, x) \/ x = m
    OBVIOUS
  <2>3. CASE n = m
    BY <2>2, <2>3 DEF NothingAfter, Before
  <2>4. CASE x = m
    BY <2>1, <2>4 DEF NothingAfter, Before
  <2>5. CASE Before(c, x, n) /\ Before(d, n, x)
    BY <2>5 DEF OrderInv, SameOrder
  <2> QED
    BY <2>1, <2>2, <2>3, <2>4, <2>5
<1>9. Distinct'
  BY <1>2, <1>4 DEF OrderInv, Distinct
<1>10. WrittenWasSaid'
  BY <1>1 DEF OrderInv, WrittenWasSaid
<1> QED
  BY <1>2, <1>3, <1>5, <1>6, <1>7, <1>8, <1>9, <1>10 DEF OrderInv

\* The steps of a caller: lock, one channel of the loop, the end of it.
LEMMA StepsStep ==
    ASSUME OrderInv, NEW t \in Callers, Steps(t)
    PROVE  OrderInv'
<1> DEFINE Same == /\ out' \in [ChannelNames -> Seq(Messages)]
                   /\ \A c \in ChannelNames, x \in Messages : On(c, x)' => On(c, x)
                   /\ \A c \in ChannelNames, x, n \in Messages : Before(c, x, n)' => Before(c, x, n)
<1>1. ASSUME out' = out PROVE Same
  BY Zenon, <1>1 DEF OrderInv, On, Before
<1>2. ASSUME call[t] # Idle
      PROVE  /\ call[t] \in [at : Nat, msg : Messages, logger : LoggerNames]
             /\ mutex \in [LoggerNames -> Callers \cup {"free"}]
             /\ Writing(t) => /\ mutex[call[t].logger] = t /\ NothingAfter(t)
                              /\ mutex = [mutex EXCEPT ![call[t].logger] = t]
                              /\ call[t].at + 1 \in Nat \ {Waits}
  BY <1>2, CallType DEF OrderInv, Holds, LastIsNewest, Waits
<1>3. CASE LockLogger(t)
  <2>1. call[t] # Idle /\ mutex[call[t].logger] = "free" /\ UNCHANGED <<loggers, said, out>>
    BY <1>3, CallType DEF LockLogger
  <2>2. CASE Return(t)
    BY Zenon, <2>1, <2>2, ReturnStep
  <2>3. CASE /\ mutex' = [mutex EXCEPT ![call[t].logger] = t]
             /\ call' = [call EXCEPT ![t].at = 1]
    <3>1. \A c \in ChannelNames : ~On(c, call[t].msg)
      BY <1>3, <2>1 DEF LockLogger, OrderInv, CallsOK
    <3>2. NothingAfter(t)
      BY Zenon, <3>1 DEF NothingAfter, Before, On
    <3>3. 1 \in Nat \ {Waits}
      BY DEF Waits
    <3> HIDE DEF Same
    <3>4. Same
      BY <1>1, <2>1
    <3> QED
      BY Zenon, <2>1, <2>3, <3>2, <3>3, <3>4, AdvanceStep DEF Same
  <2> QED
    BY <1>3, <2>2, <2>3 DEF LockLogger
<1>4. CASE WriteNext(t)
  <2>1. call[t] # Idle /\ Writing(t) /\ UNCHANGED <<loggers, said>>
    BY <1>4 DEF WriteNext, Writing
  <2>2. CASE call' = [call EXCEPT ![t].at = @ + 1] /\ UNCHANGED <<mutex, out>>
    <3>1. Same
      BY <1>1, <2>2
    <3>2. call' = [call EXCEPT ![t].at = call[t].at + 1]
      BY <2>2
    <3> HIDE DEF Same
    <3> QED
      BY Zenon, <1>2, <2>1, <2>2, <3>1, <3>2, AdvanceStep DEF Same
  <2>3. CASE Throw(t) /\ UNCHANGED out
    BY Zenon, <1>2, <2>1, <2>3, ReturnStep DEF Throw
  <2>4. CASE Written(t, Channel(t))
    <3> DEFINE m == call[t].msg
               k == call[t].at + 1
               d == Channel(t)
    <3>1. /\ out' = [out EXCEPT ![d] = Append(@, m)] /\ UNCHANGED mutex
          /\ call' = [call EXCEPT ![t].at = k]
      BY <2>4 DEF Written
    <3>2. m \in Messages
      BY Zenon, <1>2, <2>1
    <3> HIDE DEF d, m
    <3>3. out \in [ChannelNames -> Seq(Messages)]
      BY DEF OrderInv
    <3>4. /\ out' \in [ChannelNames -> Seq(Messages)]
          /\ \A c \in ChannelNames : out'[c] = IF c = d THEN Append(out[c], m) ELSE out[c]
      BY Zenon, <3>1, <3>2, <3>3, AppendOrder
    <3>5. ASSUME NEW c \in ChannelNames, NEW x \in Messages, On(c, x)' PROVE On(c, x) \/ x = m
      <4>1. CASE c = d
        <5>1. out'[c] = Append(out[c], m) /\ out[c] \in Seq(Messages)
          BY <3>3, <3>4, <4>1
        <5> QED
          BY <3>2, <3>5, <5>1, AppendOrder DEF On
      <4>2. CASE c # d
        BY <3>4, <3>5, <4>2 DEF On
      <4> QED
        BY <4>1, <4>2
    <3>6. ASSUME NEW c \in ChannelNames, NEW x \in Messages, NEW n \in Messages, Before(c, x, n)'
          PROVE  Before(c, x, n) \/ n = m
      <4>1. CASE c = d
        <5>1. out'[c] = Append(out[c], m) /\ out[c] \in Seq(Messages)
          BY <3>3, <3>4, <4>1
        <5> QED
          BY <3>2, <3>6, <5>1, AppendOrder DEF Before
      <4>2. CASE c # d
        BY Zenon, <3>4, <3>6, <4>2 DEF Before
      <4> QED
        BY <4>1, <4>2
    <3>7. k \in Nat \ {Waits} /\ mutex' = [mutex EXCEPT ![call[t].logger] = t]
      BY <1>2, <2>1, <3>1
    <3>8. mutex[call[t].logger] \in {"free", t} /\ NothingAfter(t)
      BY Zenon, <1>2, <2>1
    <3> HIDE DEF k
    <3>9. \A c \in ChannelNames, x \in Messages : On(c, x)' => On(c, x) \/ x = call[t].msg
      BY <3>5 DEF m
    <3>10. \A c \in ChannelNames, x, n \in Messages :
               Before(c, x, n)' => Before(c, x, n) \/ n = call[t].msg
      BY <3>6 DEF m
    <3> QED
      BY Zenon, <2>1, <3>1, <3>4, <3>7, <3>8, <3>9, <3>10, AdvanceStep
  <2> QED
    BY <1>4, <2>2, <2>3, <2>4 DEF WriteNext, ChannelWrite
<1>5. CASE EndOfWrite(t)
  <2>1. call[t] # Idle /\ Writing(t) /\ Return(t) /\ UNCHANGED <<loggers, said, out>>
    BY Zenon, <1>5 DEF EndOfWrite, Writing
  <2> QED
    BY Zenon, <1>2, <2>1, ReturnStep
<1> QED
  BY <1>3, <1>4, <1>5 DEF Steps

\* Every step keeps the order; the configuration is loaded only while nobody logs.
LEMMA OrderStep == LevelInv /\ OrderInv /\ [LogNext]_logVars => OrderInv'
<1> SUFFICES ASSUME LevelInv, OrderInv, [LogNext]_logVars PROVE OrderInv'
  OBVIOUS
<1>1. CASE Initialize
  BY <1>1, QuietStep DEF Initialize
<1>2. ASSUME NEW value \in BOOLEAN, UsingDefaultLogs(value) PROVE OrderInv'
  BY Zenon, <1>2, QuietStep DEF UsingDefaultLogs
<1>3. ASSUME NEW l \in LoggerNames, NEW n \in Levels, SetLoggerLevel(l, n) PROVE OrderInv'
  BY <1>3, QuietStep DEF SetLoggerLevel
<1>4. ASSUME NEW c \in ChannelNames, NEW n \in Levels, SetChannelLevel(c, n) PROVE OrderInv'
  BY <1>4, QuietStep DEF SetChannelLevel
<1>5. ASSUME NEW l \in LoggerNames, NEW c \in ChannelNames, DeleteChannel(l, c) PROVE OrderInv'
  <2>1. DOMAIN loggers' = DOMAIN loggers /\ UNCHANGED <<mutex, call, said, out>>
    BY <1>5 DEF DeleteChannel
  <2> QED
    BY Zenon, <2>1, QuietStep
<1>6. ASSUME NEW t \in Callers, NEW m \in Messages, OutMessage(t, m) PROVE OrderInv'
  BY <1>6, OutMessageStep
<1>7. ASSUME NEW t \in Callers, Steps(t) PROVE OrderInv'
  BY <1>7, StepsStep
<1>8. CASE UNCHANGED logVars
  BY <1>8, QuietStep DEF logVars
<1> QED
  BY Zenon, <1>1, <1>2, <1>3, <1>4, <1>5, <1>6, <1>7, <1>8 DEF LogNext

\* Two messages with one filter are never in opposite orders on two channels: whoever
\* writes holds the mutex of the logger that both messages have.
THEOREM OneOrder == LogSpec => []SameOrder
<1>1. LogInit => LevelInv
  BY DEF LogInit, LevelInv, HighestCoversLoggers, Levels, MAX_LOG_LEVEL, Disabled
<1>2. LogInit => OrderInv
  <2> SUFFICES ASSUME LogInit PROVE OrderInv
    OBVIOUS
  <2>1. \A c \in ChannelNames : out[c] = <<>> /\ DOMAIN out[c] = {}
    BY DEF LogInit
  <2>2. \A t \in Callers : call[t] = Idle
    BY DEF LogInit
  <2>3. /\ said \subseteq Messages /\ call \in [Callers -> Calls]
        /\ mutex \in [LoggerNames -> Callers \cup {"free"}] /\ out \in [ChannelNames -> Seq(Messages)]
    BY DEF LogInit, Calls
  <2> QED
    BY Zenon, <2>1, <2>2, <2>3
    DEF OrderInv, CallsOK, Holds, Distinct, WrittenWasSaid, LastIsNewest, SameOrder, On, Before, Writing
<1>3. OrderInv => SameOrder
  BY DEF OrderInv
<1> QED
  BY <1>1, <1>2, <1>3, LevelStep, OrderStep, PTL DEF LogSpec

-------------------------------------------------------------------------------
INSTANCE FiniteSetTheorems

\* ClearOldFiles has the matching files in the order of their dates. As long as there are too
\* many of them it has removed every file it has visited; it comes to MaxCount before it comes
\* to the end; and the time it compares with has passed.
Visiting == /\ IsInjective(logFiles) /\ Range(logFiles) \subseteq Matching
            /\ \A i, j \in DOMAIN logFiles : i < j => ~ByDate(logFiles[j], logFiles[i])
            /\ Cardinality(Matching) <= filesCount
            /\ filesCount <= Len(logFiles) + MaxCount
            /\ filesCount > MaxCount => Matching = Range(logFiles) /\ filesCount = Len(logFiles)
            /\ deleteBefore <= today - PurgeAge

AllFiles == [name : {fileName}, day : Days] \cup {OtherFile}

FileInv == /\ FileTypeOK
           /\ IsFiniteSet(files)
           /\ logFiles \in Seq(AllFiles)
           /\ channel = "clearing" => Visiting
           /\ channel # "clearing" => logFiles = <<>>
           /\ channel # "made" => logFile = "none"
           /\ FilesBounded

\* A sorted list of the files holds every one of them once.
LEMMA SortedList ==
    ASSUME NEW M, IsFiniteSet(M), NEW s \in SortedByDate(M)
    PROVE  /\ s \in Seq(M) /\ Len(s) = Cardinality(M) /\ IsInjective(s) /\ Range(s) = M
           /\ \A i, j \in DOMAIN s : i < j => ~ByDate(s[j], s[i])
<1> DEFINE n == Cardinality(M)
<1>1. n \in Nat
    BY FS_CardinalityType
<1>2. /\ s \in [1 .. n -> M]
      /\ \A i, j \in 1 .. n : i # j => s[i] # s[j]
      /\ \A i, j \in DOMAIN s : i < j => ~ByDate(s[j], s[i])
    BY Zenon DEF SortedByDate, Injection, IsInjective
<1> HIDE DEF n
<1>3. s \in Seq(M) /\ Len(s) = n /\ DOMAIN s = 1 .. n
    BY <1>1, <1>2
<1>4. IsInjective(s)
    BY Zenon, <1>2, <1>3 DEF IsInjective
<1>5. s \in Injection(1 .. n, M)
    BY Zenon, <1>2, <1>4 DEF Injection
<1>6. Cardinality(1 .. n) = n
    BY <1>1, FS_Interval
<1>7. s \in Surjection(1 .. n, M)
    BY <1>5, <1>6, FS_Injection DEF n
<1>8. Range(s) = M
    BY <1>2, <1>3, <1>7 DEF Surjection, Range
<1> QED
    BY Zenon, <1>2, <1>3, <1>4, <1>8 DEF n

\* The rest of an injective list: all but its first element.
LEMMA RestOfList ==
    ASSUME NEW S, NEW s \in Seq(S), s # <<>>, IsInjective(s)
    PROVE  /\ Head(s) \in Range(s) /\ Tail(s) \in Seq(S) /\ Len(Tail(s)) = Len(s) - 1
           /\ Len(s) \in Nat /\ Len(s) > 0
           /\ DOMAIN s = 1 .. Len(s) /\ DOMAIN Tail(s) = 1 .. Len(s) - 1
           /\ Head(s) = s[1] /\ \A i \in 1 .. Len(s) - 1 : Tail(s)[i] = s[i + 1]
           /\ IsInjective(Tail(s)) /\ Range(Tail(s)) = Range(s) \ {Head(s)}
<1>1. /\ Tail(s) \in Seq(S) /\ Len(Tail(s)) = Len(s) - 1
      /\ Len(s) \in Nat /\ Len(s) > 0
      /\ DOMAIN s = 1 .. Len(s) /\ DOMAIN Tail(s) = 1 .. Len(s) - 1
      /\ Head(s) = s[1] /\ \A i \in 1 .. Len(s) - 1 : Tail(s)[i] = s[i + 1]
    OBVIOUS
<1>2. 1 \in DOMAIN s /\ \A i \in DOMAIN Tail(s) : i + 1 \in DOMAIN s /\ i + 1 # 1 /\ Tail(s)[i] = s[i + 1]
    BY <1>1
<1>3. IsInjective(Tail(s))
  <2> SUFFICES ASSUME NEW i \in DOMAIN Tail(s), NEW j \in DOMAIN Tail(s), Tail(s)[i] = Tail(s)[j]
               PROVE  i = j
    BY Zenon DEF IsInjective
  <2>1. i + 1 = j + 1
    BY Zenon, <1>2 DEF IsInjective
  <2> QED
    BY <1>1, <2>1
<1>4. Range(Tail(s)) \subseteq Range(s) \ {Head(s)}
  <2> SUFFICES ASSUME NEW i \in DOMAIN Tail(s) PROVE Tail(s)[i] \in Range(s) /\ Tail(s)[i] # s[1]
    BY <1>1 DEF Range
  <2> QED
    BY Zenon, <1>2 DEF IsInjective, Range
<1>5. ASSUME NEW i \in DOMAIN s, s[i] # Head(s) PROVE s[i] \in Range(Tail(s))
  <2>1. i - 1 \in DOMAIN Tail(s) /\ (i - 1) + 1 = i
    BY <1>1, <1>5
  <2> QED
    BY Zenon, <1>1, <2>1 DEF Range
<1>6. Head(s) \in Range(s)
    BY <1>1, <1>2 DEF Range
<1>7. Range(s) \ {Head(s)} \subseteq Range(Tail(s))
    BY Zenon, <1>5 DEF Range
<1>8. Range(Tail(s)) = Range(s) \ {Head(s)}
    BY <1>4, <1>7
<1> QED
    BY Zenon, <1>1, <1>3, <1>6, <1>8

\* The matching files are finitely many, and none of them is the other file.
LEMMA MatchingFiles ==
    ASSUME FileInv
    PROVE  /\ IsFiniteSet(Matching) /\ Cardinality(Matching) \in Nat
           /\ Matching \subseteq files /\ OtherFile \notin Matching
           /\ Matching \subseteq [name : {fileName}, day : Days]
           /\ MaxCount \in Nat /\ PurgeAge \in Nat /\ MaxDay \in Nat /\ today \in Int
           /\ filesCount \in Nat /\ deleteBefore \in Int
<1>1. Matching \subseteq files /\ IsFiniteSet(files)
    BY DEF Matching, FileInv
<1>2. IsFiniteSet(Matching) /\ Cardinality(Matching) \in Nat
    BY <1>1, FS_Subset, FS_CardinalityType
<1>3. OtherFile \notin Matching
    BY FileAssumption DEF FileInv, FileTypeOK, Matching
<1>4. Matching \subseteq [name : {fileName}, day : Days]
    BY <1>1, <1>3 DEF FileInv, FileTypeOK
<1>5. MaxCount \in Nat /\ PurgeAge \in Nat /\ MaxDay \in Nat
    BY FileAssumption
<1>6. today \in Int /\ filesCount \in Nat /\ deleteBefore \in Int
    BY <1>5 DEF FileInv, FileTypeOK, Days
<1> QED
    BY <1>1, <1>2, <1>3, <1>4, <1>5, <1>6

\* ClearOldFiles lists the files.
LEMMA ListFilesKeeps == ASSUME FileInv, ListFiles PROVE FileInv'
<1>1. /\ channel' = "clearing" /\ deleteBefore' = today - PurgeAge
      /\ logFiles' \in SortedByDate(Matching) /\ filesCount' = Cardinality(Matching)
      /\ channel = "none" /\ UNCHANGED <<fileName, today, files, logFile>>
    BY DEF ListFiles
<1>2. PICK s : s = logFiles'
    OBVIOUS
<1>3. PICK M : M = Matching
    OBVIOUS
<1>4. /\ IsFiniteSet(M) /\ Cardinality(M) \in Nat /\ M \subseteq files
      /\ M \subseteq [name : {fileName}, day : Days]
      /\ MaxCount \in Nat /\ PurgeAge \in Nat /\ today \in Int
    BY <1>3, MatchingFiles
<1>5. /\ s \in Seq(M) /\ Len(s) = Cardinality(M) /\ IsInjective(s) /\ Range(s) = M
      /\ \A i, j \in DOMAIN s : i < j => ~ByDate(s[j], s[i])
    BY Zenon, <1>1, <1>2, <1>3, <1>4, SortedList
<1>6. Matching' = M
    BY <1>1, <1>3 DEF Matching
<1>7. s \in Seq(AllFiles)
    BY <1>4, <1>5 DEF AllFiles
<1>8. AllFiles' = AllFiles
    BY <1>1 DEF AllFiles
<1>9. Visiting'
  <2>1. \A i, j \in DOMAIN s : i < j => ~ByDate(s[j], s[i])'
    BY Zenon, <1>2, <1>5 DEF ByDate, GetFileCreationDate
  <2>2. /\ Cardinality(M) <= filesCount' /\ filesCount' <= Len(s) + MaxCount
        /\ filesCount' = Len(s) /\ deleteBefore' <= today - PurgeAge
    BY <1>1, <1>3, <1>4, <1>5
  <2> QED
    BY Zenon, <1>1, <1>2, <1>5, <1>6, <2>1, <2>2 DEF Visiting
<1>10. deleteBefore' \in Int /\ filesCount' \in Nat
    BY <1>1, <1>3, <1>4
<1>11. FileTypeOK'
    BY Zenon, <1>1, <1>2, <1>4, <1>5, <1>10 DEF FileInv, FileTypeOK
<1> QED
    BY Zenon, <1>1, <1>2, <1>7, <1>8, <1>9, <1>11 DEF FileInv, FilesBounded

\* ClearOldFiles visits the next file.
LEMMA VisitFileKeeps == ASSUME FileInv, VisitFile PROVE FileInv'
<1> DEFINE file == Head(logFiles)
           many == filesCount > MaxCount
           old == GetFileCreationDate(file) < deleteBefore
<1>1. /\ channel = "clearing" /\ logFiles # <<>> /\ logFiles' = Tail(logFiles)
      /\ files' = IF many \/ old THEN files \ {file} ELSE files
      /\ filesCount' = IF many THEN filesCount - 1 ELSE filesCount
      /\ UNCHANGED <<fileName, today, channel, deleteBefore, logFile>>
    BY Zenon DEF VisitFile
<1>2. Visiting /\ logFiles \in Seq(AllFiles)
    BY Zenon, <1>1 DEF FileInv
<1>3. PICK M : M = Matching
    OBVIOUS
<1>4. PICK n : n = Len(logFiles)
    BY Zenon
<1>5. PICK rest : rest = Tail(logFiles)
    BY Zenon
<1>6. /\ file \in Range(logFiles) /\ rest \in Seq(AllFiles) /\ Len(rest) = n - 1
      /\ n \in Nat /\ n > 0 /\ DOMAIN logFiles = 1 .. n /\ DOMAIN rest = 1 .. n - 1
      /\ \A i \in 1 .. n - 1 : rest[i] = logFiles[i + 1]
      /\ IsInjective(rest) /\ Range(rest) = Range(logFiles) \ {file}
    BY Zenon, <1>1, <1>2, <1>4, <1>5, RestOfList DEF Visiting
<1>7. /\ IsFiniteSet(M) /\ Cardinality(M) \in Nat /\ M \subseteq files
      /\ MaxCount \in Nat /\ filesCount \in Nat
    BY <1>3, MatchingFiles
<1>8. file \in M
    BY Zenon, <1>2, <1>3, <1>6 DEF Visiting
<1>9. IsFiniteSet(M \ {file}) /\ Cardinality(M \ {file}) = Cardinality(M) - 1
    BY Zenon, <1>7, <1>8, FS_RemoveElement
<1>10. PICK left : left = IF many \/ old THEN M \ {file} ELSE M
    BY Zenon
<1>11. Matching' = left
    BY Zenon, <1>1, <1>3, <1>10 DEF Matching
<1>12. /\ Cardinality(M) <= filesCount /\ filesCount <= n + MaxCount
       /\ many => M = Range(logFiles) /\ filesCount = n
       /\ Range(logFiles) \subseteq M
    BY Zenon, <1>2, <1>3, <1>4 DEF Visiting
<1>13. Range(rest) \subseteq left
    BY Zenon, <1>6, <1>10, <1>12
<1>14. filesCount' \in Nat
    BY <1>1, <1>7
<1>15. Cardinality(left) <= filesCount'
  <2>1. CASE many
    BY <1>1, <1>7, <1>9, <1>10, <1>12, <2>1
  <2>2. CASE ~many
    BY <1>1, <1>7, <1>9, <1>10, <1>12, <2>2
  <2> QED
    BY <2>1, <2>2
<1>16. filesCount' <= Len(rest) + MaxCount
  <2>1. CASE many
    <3>1. filesCount' = filesCount - 1 /\ filesCount = n
      BY Zenon, <1>1, <1>12, <2>1
    <3> QED
      BY <1>6, <1>7, <3>1
  <2>2. CASE ~many
    <3>1. filesCount' = filesCount /\ filesCount <= MaxCount
      BY <1>1, <1>7, <2>2
    <3> QED
      BY <1>6, <1>7, <3>1
  <2> QED
    BY <2>1, <2>2
<1>17. filesCount' > MaxCount => left = Range(rest) /\ filesCount' = Len(rest)
    BY Zenon, <1>1, <1>6, <1>7, <1>10, <1>12
<1>18. \A i, j \in DOMAIN rest : i < j => ~ByDate(rest[j], rest[i])
  <2> SUFFICES ASSUME NEW i \in 1 .. n - 1, NEW j \in 1 .. n - 1, i < j
               PROVE  ~ByDate(logFiles[j + 1], logFiles[i + 1])
    BY Zenon, <1>6
  <2>1. i + 1 \in 1 .. n /\ j + 1 \in 1 .. n /\ i + 1 < j + 1
    BY <1>6
  <2> QED
    BY Zenon, <1>2, <1>6, <2>1 DEF Visiting
<1>19. IsFiniteSet(files')
    BY Zenon, <1>1, FS_RemoveElement DEF FileInv
<1>20. Visiting'
  <2>1. logFiles' = rest /\ deleteBefore' <= today' - PurgeAge
    BY Zenon, <1>1, <1>2, <1>5 DEF Visiting
  <2>2. \A f, g : ByDate(f, g)' <=> ByDate(f, g)
    BY Zenon DEF ByDate, GetFileCreationDate
  <2> QED
    BY Zenon, <1>6, <1>11, <1>13, <1>15, <1>16, <1>17, <1>18, <2>1, <2>2 DEF Visiting
<1>21. left \subseteq files'
    BY Zenon, <1>1, <1>7, <1>10
<1>22. FileTypeOK'
    BY Zenon, <1>1, <1>5, <1>13, <1>14, <1>21 DEF FileInv, FileTypeOK
<1>23. AllFiles' = AllFiles
    BY Zenon, <1>1 DEF AllFiles
<1> QED
    BY Zenon, <1>1, <1>5, <1>6, <1>19, <1>20, <1>22, <1>23 DEF FileInv, FilesBounded

\* The first message opens the file.
LEMMA OpenFileKeeps == ASSUME FileInv, NEW opens \in BOOLEAN, OpenFile(opens) PROVE FileInv'
<1> DEFINE new == [name |-> fileName, day |-> today]
<1>1. /\ channel = "made" /\ logFile = "none"
      /\ logFile' = (IF opens THEN "open" ELSE "failed")
      /\ files' = IF opens THEN files \cup {new} ELSE files
      /\ UNCHANGED <<fileName, today, channel, logFiles, filesCount, deleteBefore>>
    BY Zenon DEF OpenFile
<1>2. PICK M : M = Matching
    OBVIOUS
<1>3. IsFiniteSet(M) /\ Cardinality(M) \in Nat /\ MaxCount \in Nat
    BY <1>2, MatchingFiles
<1>4. Cardinality(M) <= MaxCount + 0
    BY Zenon, <1>1, <1>2 DEF FileInv, FilesBounded
<1>5. new \in [name : {fileName}, day : Days]
    BY Zenon DEF FileInv, FileTypeOK
<1>6. FileTypeOK'
    BY Zenon, <1>1, <1>5 DEF FileInv, FileTypeOK
<1>7. IsFiniteSet(files')
    BY Zenon, <1>1, FS_AddElement DEF FileInv
<1>8. AllFiles' = AllFiles
    BY Zenon, <1>1 DEF AllFiles
<1>9. FilesBounded'
  <2>1. CASE opens
    <3>1. Matching' = M \cup {new}
      BY <1>1, <1>2, <2>1 DEF Matching
    <3>2. Cardinality(M \cup {new}) <= MaxCount + 1
      <4>1. Cardinality(M \cup {new}) \in {Cardinality(M), Cardinality(M) + 1}
        BY Zenon, <1>3, FS_AddElement
      <4> QED
        BY <1>3, <1>4, <4>1
    <3> QED
      BY Zenon, <1>1, <2>1, <3>1, <3>2 DEF FilesBounded
  <2>2. CASE ~opens
    <3>1. Matching' = M /\ logFile' # "open"
      BY Zenon, <1>1, <1>2, <2>2 DEF Matching
    <3> QED
      BY Zenon, <1>1, <1>4, <3>1 DEF FilesBounded
  <2> QED
    BY <2>1, <2>2
<1> QED
    BY Zenon, <1>1, <1>6, <1>7, <1>8, <1>9 DEF FileInv

\* The files of a channel, for every number of files kept and every age.
THEOREM FileInvHolds == FileSpec => []FileInv
<1>1. FileInit => FileInv
  <2> SUFFICES ASSUME FileInit PROVE FileInv
    OBVIOUS
  <2>1. IsFiniteSet(files)
    BY Zenon, FS_Singleton DEF FileInit
  <2>2. today \in Days /\ filesCount \in Nat /\ deleteBefore \in Int
    BY FileAssumption DEF FileInit, Days
  <2>3. logFiles \in Seq(AllFiles) /\ Range(logFiles) = {}
    BY DEF FileInit, Range
  <2> QED
    BY Zenon, <2>1, <2>2, <2>3 DEF FileInit, FileInv, FileTypeOK, FilesBounded
<1>2. FileInv /\ [FileNext]_fileVars => FileInv'
  <2> SUFFICES ASSUME FileInv, [FileNext]_fileVars PROVE FileInv'
    OBVIOUS
  <2>1. CASE ChannelMade
    <3>1. /\ channel = "clearing" /\ logFiles = <<>> /\ channel' = "made"
          /\ UNCHANGED <<fileName, today, files, logFiles, filesCount, deleteBefore, logFile>>
      BY Zenon, <2>1 DEF ChannelMade
    <3>2. PICK M : M = Matching
      OBVIOUS
    <3>3. Cardinality(M) \in Nat /\ MaxCount \in Nat /\ filesCount \in Nat
      BY Zenon, <3>2, MatchingFiles
    <3>4. Cardinality(M) <= filesCount /\ filesCount <= Len(logFiles) + MaxCount
      BY Zenon, <3>1, <3>2 DEF FileInv, Visiting
    <3>5. Len(logFiles) = 0
      BY <3>1
    <3>6. Cardinality(M) <= MaxCount + 0
      BY <3>3, <3>4, <3>5
    <3>7. Matching' = M /\ AllFiles' = AllFiles /\ logFile' # "open"
      BY Zenon, <3>1, <3>2 DEF Matching, AllFiles, FileInv
    <3>8. FilesBounded'
      BY Zenon, <3>6, <3>7 DEF FilesBounded
    <3> QED
      BY Zenon, <3>1, <3>7, <3>8 DEF FileInv, FileTypeOK
  <2>2. CASE ProgramEnds
    <3>1. /\ channel' = "none" /\ logFile' = "none" /\ logFiles' = <<>> /\ filesCount' = 0
          /\ UNCHANGED <<fileName, today, files, deleteBefore>>
      BY <2>2 DEF ProgramEnds
    <3>2. <<>> \in Seq(AllFiles) /\ Range(<<>>) = {} /\ 0 \in Nat
      BY DEF Range
    <3>3. AllFiles' = AllFiles
      BY Zenon, <3>1 DEF AllFiles
    <3> QED
      BY Zenon, <3>1, <3>2, <3>3 DEF FileInv, FileTypeOK, FilesBounded
  <2>3. CASE NextDay
    <3>1. /\ today' = today + 1 /\ today < MaxDay
          /\ UNCHANGED <<fileName, files, channel, logFiles, filesCount, deleteBefore, logFile>>
      BY Zenon, <2>3 DEF NextDay
    <3>2. PICK M : M = Matching
      OBVIOUS
    <3>3. Matching' = M /\ AllFiles' = AllFiles
      BY Zenon, <3>1, <3>2 DEF Matching, AllFiles
    <3>4. today' \in Days
      BY <3>1, FileAssumption DEF FileInv, FileTypeOK, Days
    <3>5. FilesBounded'
      BY Zenon, <3>1, <3>2, <3>3 DEF FileInv, FilesBounded
    <3>6. FileTypeOK'
      BY Zenon, <3>1, <3>4 DEF FileInv, FileTypeOK
    <3>7. Visiting => Visiting'
      <4>1. deleteBefore <= today - PurgeAge => deleteBefore <= (today + 1) - PurgeAge
        BY MatchingFiles
      <4> QED
        BY <3>1, <3>2, <3>3, <4>1 DEF Visiting, ByDate, GetFileCreationDate
    <3> QED
      BY Zenon, <3>1, <3>3, <3>5, <3>6, <3>7 DEF FileInv
  <2>4. CASE UNCHANGED fileVars
    <3>1. UNCHANGED <<fileName, today, files, channel, logFiles, filesCount, deleteBefore, logFile>>
      BY Zenon, <2>4 DEF fileVars
    <3>2. FileTypeOK' /\ FilesBounded' /\ (logFiles \in Seq(AllFiles))'
      BY Zenon, <3>1 DEF FileInv, FileTypeOK, FilesBounded, Matching, AllFiles
    <3>3. Visiting => Visiting'
      <4>1. Matching' = Matching /\ \A f, g : ByDate(f, g)' <=> ByDate(f, g)
        BY Zenon, <3>1 DEF Matching, ByDate, GetFileCreationDate
      <4> QED
        BY Zenon, <3>1, <4>1 DEF Visiting
    <3> QED
      BY Zenon, <3>1, <3>2, <3>3 DEF FileInv
  <2> QED
    BY <2>1, <2>2, <2>3, <2>4, ListFilesKeeps, VisitFileKeeps, OpenFileKeeps DEF FileNext
<1> QED
    BY <1>1, <1>2, PTL DEF FileSpec

\* At most MaxCount files besides the open one.
THEOREM FileCountBounded == FileSpec => []FilesBounded
<1>1. FileInv => FilesBounded
    BY DEF FileInv
<1> QED
    BY <1>1, FileInvHolds, PTL

\* A file is removed only when MaxCount newer ones are there, or when it is too old.
THEOREM FileRemovesOnlyOld == FileSpec => RemovesOnlyOld
<1> DEFINE Reason(f) == /\ f # OtherFile
                        /\ \/ fileName \in WithDigits
                           \/ Cardinality({g \in Matching : g.day > f.day}) >= MaxCount
                           \/ f.day < today - PurgeAge
<1>1. FileInv /\ [FileNext]_fileVars => [\A f \in files \ files' : Reason(f)]_fileVars
  <2> SUFFICES ASSUME FileInv, FileNext, NEW f \in files, f \notin files' PROVE Reason(f)
    BY Zenon
  <2>1. VisitFile
    BY Zenon DEF FileNext, ListFiles, ChannelMade, ProgramEnds, NextDay, OpenFile
  <2>2. /\ channel = "clearing" /\ logFiles # <<>> /\ f = Head(logFiles)
        /\ filesCount > MaxCount \/ GetFileCreationDate(f) < deleteBefore
    BY Zenon, <2>1 DEF VisitFile
  <2>3. Visiting /\ logFiles \in Seq(AllFiles)
    BY Zenon, <2>2 DEF FileInv
  <2>4. PICK n : n = Len(logFiles)
    BY Zenon
  <2>5. /\ f \in Range(logFiles) /\ n \in Nat /\ n > 0 /\ DOMAIN logFiles = 1 .. n /\ f = logFiles[1]
    BY Zenon, <2>2, <2>3, <2>4, RestOfList DEF Visiting
  <2>6. /\ IsFiniteSet(Matching) /\ Cardinality(Matching) \in Nat /\ OtherFile \notin Matching
        /\ Matching \subseteq [name : {fileName}, day : Days]
        /\ MaxCount \in Nat /\ PurgeAge \in Nat /\ MaxDay \in Nat /\ today \in Int
        /\ filesCount \in Nat /\ deleteBefore \in Int
    BY Zenon, MatchingFiles
  <2>7. f \in Matching /\ f # OtherFile
    BY Zenon, <2>3, <2>5, <2>6 DEF Visiting
  <2>8. SUFFICES ASSUME fileName \notin WithDigits
                 PROVE  \/ Cardinality({g \in Matching : g.day > f.day}) >= MaxCount
                        \/ f.day < today - PurgeAge
    BY Zenon, <2>7
  <2>9. \A g \in Matching : GetFileCreationDate(g) = g.day /\ g.day \in Int /\ g.name = fileName
    BY <2>6, <2>8 DEF GetFileCreationDate, Days
  <2>10. CASE filesCount > MaxCount
    <3>1. Matching = Range(logFiles) /\ filesCount = n /\ Cardinality(Matching) <= filesCount
      BY Zenon, <2>3, <2>4, <2>10 DEF Visiting
    <3>2. \A g \in Matching \ {f} : g.day > f.day
      <4> SUFFICES ASSUME NEW g \in Matching, g # f PROVE g.day > f.day
        BY Zenon
      <4>1. PICK i \in 1 .. n : g = logFiles[i]
        BY Zenon, <2>5, <3>1 DEF Range
      <4>2. 1 < i /\ 1 \in 1 .. n
        BY <2>5, <4>1
      <4>3. ~ByDate(g, f)
        BY Zenon, <2>3, <2>5, <4>1, <4>2 DEF Visiting
      <4>4. g.day >= f.day
        BY <2>7, <2>9, <4>3 DEF ByDate
      <4>5. g.day # f.day
        BY <2>6, <2>7, <2>9
      <4> QED
        BY <2>7, <2>9, <4>4, <4>5
    <3>3. {g \in Matching : g.day > f.day} = Matching \ {f}
      BY <2>7, <2>9, <3>2
    <3>4. Cardinality(Matching \ {f}) = Cardinality(Matching) - 1
      BY Zenon, <2>6, <2>7, FS_RemoveElement
    <3>5. Cardinality(Matching) = n
      <4>1. logFiles \in Injection(1 .. n, Matching)
        <5>1. logFiles \in [1 .. n -> Matching]
          BY <2>3, <2>5, <3>1 DEF Range
        <5> QED
          BY Zenon, <2>3, <5>1 DEF Injection, Visiting
      <4>2. Cardinality(1 .. n) = n
        BY <2>5, FS_Interval
      <4>3. n <= Cardinality(Matching)
        BY <2>6, <4>1, <4>2, FS_Injection
      <4> QED
        BY <2>5, <2>6, <3>1, <4>3
    <3>6. Cardinality({g \in Matching : g.day > f.day}) = n - 1
      BY Zenon, <3>3, <3>4, <3>5
    <3>7. n - 1 >= MaxCount
      BY <2>5, <2>6, <2>10, <3>1
    <3> QED
      BY Zenon, <3>6, <3>7
  <2>11. CASE GetFileCreationDate(f) < deleteBefore
    <3>1. deleteBefore <= today - PurgeAge
      BY Zenon, <2>3 DEF Visiting
    <3> QED
      BY <2>6, <2>7, <2>9, <2>11, <3>1
  <2> QED
    BY Zenon, <2>2, <2>10, <2>11
<1> QED
    BY <1>1, FileInvHolds, PTL DEF FileSpec, RemovesOnlyOld

===============================================================================
