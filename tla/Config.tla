-------------------------------- MODULE Config --------------------------------
(*************************************************************************)
(* ConfigMgr: the options of the .conf.dist file, overridden by those of *)
(* the .conf file. A file is read into a map of its own first, and only  *)
(* a file that was read to its end counts.                               *)
(*                                                                       *)
(* A file is missing or a sequence of lines; a line is an option, or one *)
(* that is left out: empty, a comment, or without "=".                   *)
(*************************************************************************)
EXTENDS Naturals, Sequences

CONSTANTS
    OptionNames,
    LoggingOptions,     \* those called Logger.* and LogChannel.*
    OptionValues,
    Unusable,           \* values StringTo cannot convert to the type that is asked for
    Default,            \* the default the caller passes to GetOption
    Comment,            \* a line without an option
    Missing,            \* a file that cannot be opened
    Disks               \* [dist |-> file, conf |-> file]

Lines == [entry : OptionNames, value : OptionValues] \cup {Comment}

ASSUME ConfigAssumption ==
    /\ LoggingOptions \subseteq OptionNames
    /\ Unusable \subseteq OptionValues /\ Default \notin OptionValues
    /\ Disks \subseteq [dist : Seq(Lines) \cup {Missing}, conf : Seq(Lines) \cup {Missing}]

VARIABLES
    disk,               \* the two files
    configOptions,      \* _configOptions
    fileConfigs,        \* the map ParseFile fills
    lineNumber,         \* lines read of the file that is being parsed
    loading,            \* that file, or what LoadAppConfigs has returned
    usingDistConfig     \* _usingDistConfig

configVars == <<disk, configOptions, fileConfigs, lineNumber, loading, usingDistConfig>>

Maps == UNION {[names -> OptionValues] : names \in SUBSET OptionNames}

ConfigTypeOK == /\ disk \in Disks
                /\ configOptions \in Maps /\ fileConfigs \in Maps
                /\ lineNumber \in Nat
                /\ loading \in {"no", "dist", "conf", "true", "false"}
                /\ usingDistConfig \in BOOLEAN

ConfigInit == /\ disk \in Disks
              /\ configOptions = <<>> /\ fileConfigs = <<>>
              /\ lineNumber = 0 /\ loading = "no" /\ usingDistConfig = FALSE

-------------------------------------------------------------------------------
\* ParseFile has thrown, or returned false for the optional file: the initial file is
\* needed, the additional one is not.
NotLoaded == /\ loading' = IF loading = "conf" THEN "true" ELSE "false"
             /\ usingDistConfig' = (loading = "conf")
             /\ UNCHANGED <<disk, configOptions, fileConfigs, lineNumber>>

LoadInitial == /\ loading = "no"
               /\ loading' = IF disk.dist = Missing THEN "false" ELSE "dist"
               /\ UNCHANGED <<disk, configOptions, fileConfigs, lineNumber, usingDistConfig>>

\* Variant of ParseLine: a later line with the same name wins.
ParseLineOver(line) == IF line = Comment THEN fileConfigs
                       ELSE [n \in DOMAIN fileConfigs \cup {line.entry} |->
                                IF n = line.entry THEN line.value ELSE fileConfigs[n]]

\* The first line with a name counts.
ParseLine(line) == IF line = Comment \/ line.entry \in DOMAIN fileConfigs THEN fileConfigs
                   ELSE [n \in DOMAIN fileConfigs \cup {line.entry} |->
                            IF n = line.entry THEN line.value ELSE fileConfigs[n]]

ParseFile == /\ loading \in {"dist", "conf"} /\ disk[loading] # Missing
             /\ lineNumber < Len(disk[loading])
             /\ lineNumber' = lineNumber + 1
             /\ fileConfigs' = ParseLine(disk[loading][lineNumber + 1])
             /\ UNCHANGED <<disk, configOptions, loading, usingDistConfig>>

\* A line cannot be read, the file has no option, or the additional file is missing.
FailToParse == /\ loading \in {"dist", "conf"}
               /\ NotLoaded

\* An option of the additional file that the initial one does not have is left out,
\* unless it belongs to the logging system.
AddKey(isOptional) ==
    LET added == {n \in DOMAIN fileConfigs :
                    isOptional => n \in DOMAIN configOptions \cup LoggingOptions}
    IN  [n \in DOMAIN configOptions \cup added |->
            IF n \in added THEN fileConfigs[n] ELSE configOptions[n]]

\* The end of a file with at least one option.
LoadFile == /\ loading \in {"dist", "conf"} /\ disk[loading] # Missing
            /\ lineNumber = Len(disk[loading]) /\ DOMAIN fileConfigs # {}
            /\ configOptions' = AddKey(loading = "conf")
            /\ loading' = IF loading = "dist" THEN "conf" ELSE "true"
            /\ fileConfigs' = <<>> /\ lineNumber' = 0
            /\ UNCHANGED <<disk, usingDistConfig>>

ConfigNext == LoadInitial \/ ParseFile \/ FailToParse \/ LoadFile

ConfigSpec == ConfigInit /\ [][ConfigNext]_configVars

\* GetOption: a value that is missing or cannot be converted is the default.
GetOption(name) == IF name \in DOMAIN configOptions /\ configOptions[name] \notin Unusable
                   THEN configOptions[name] ELSE Default

-------------------------------------------------------------------------------
Sets(file, name) == \E i \in DOMAIN file : file[i] # Comment /\ file[i].entry = name
First(file, name) == file[CHOOSE i \in DOMAIN file :
                              /\ file[i] # Comment /\ file[i].entry = name
                              /\ \A j \in 1 .. i - 1 : file[j] # Comment => file[j].entry # name].value
Convert(value) == IF value \in Unusable THEN Default ELSE value

\* What a caller of GetOption gets once LoadAppConfigs has returned true, whatever the two
\* files hold and wherever reading them has failed: the value of .conf if the whole of it
\* was read and it may set the option, otherwise that of .conf.dist, otherwise the default.
\* No option comes from a file that was read in part, and none from .conf while GetFilename
\* says that .conf.dist is used.
Precedence ==
    loading = "true" => \A n \in OptionNames : GetOption(n) =
        IF /\ ~usingDistConfig /\ Sets(disk.conf, n)
           /\ Sets(disk.dist, n) \/ n \in LoggingOptions
        THEN Convert(First(disk.conf, n))
        ELSE IF Sets(disk.dist, n) THEN Convert(First(disk.dist, n)) ELSE Default
===============================================================================
