------------------------- MODULE ComplianceWarnings -------------------------
(***************************************************************************)
(* The text handling of queryNonCompliantChargerStatus (Usb.cpp): the     *)
(* contents of device/non_compliant_reasons are split by                  *)
(* android::base::Tokenize and each token is turned into a warning by     *)
(* strncmp prefix tests against five keywords, in the code's order.       *)
(*                                                                         *)
(* A text is a sequence of one-character strings.  The keywords are       *)
(* constants: a model gives them short spellings over a small alphabet    *)
(* that keep the relation that matters, which keyword is a prefix of      *)
(* which token.                                                            *)
(***************************************************************************)
EXTENDS Naturals, Sequences, SequencesExt

CONSTANTS
    DebugAccessoryWord,     \* kComplianceWarningDebugAccessory
    BC12Word,               \* kComplianceWarningBC12
    MissingRpWord,          \* kComplianceWarningMissingRp
    OtherWord,              \* kComplianceWarningOther
    InputPowerLimitedWord,  \* kComplianceWarningInputPowerLimited
    SplitPowerWarning,      \* both usb_flags of the INPUT_POWER_LIMITED branch
    ReasonWords,            \* reason words the TCPC driver may list
    MaxReasons              \* length bound of the lists the check covers

KnownWords == {DebugAccessoryWord, BC12Word, MissingRpWord, OtherWord,
               InputPowerLimitedWord}

ASSUME /\ KnownWords \subseteq ReasonWords
       /\ SplitPowerWarning \in BOOLEAN /\ MaxReasons \in Nat

(* The delimiter argument "[], \n\0" is a C string: it becomes a          *)
(* std::string at its terminating NUL, so the NUL is not a delimiter.     *)
Delimiters == {"[", "]", ",", " ", "\n"}

(* std::string::find_first_not_of / find_first_of from index k (1-based); *)
(* Len(s) + 1 stands for npos.                                             *)
RECURSIVE FirstNotOf(_, _)
FirstNotOf(s, k) ==
    IF k > Len(s) \/ s[k] \notin Delimiters THEN k ELSE FirstNotOf(s, k + 1)

RECURSIVE FirstOf(_, _)
FirstOf(s, k) ==
    IF k > Len(s) \/ s[k] \in Delimiters THEN k ELSE FirstOf(s, k + 1)

(* android::base::Tokenize: from `end`, skip delimiters to `base`; stop   *)
(* at npos; else the token runs to the next delimiter, which becomes the *)
(* new `end`.  Empty tokens are never produced.                           *)
RECURSIVE TokenizeFrom(_, _)
TokenizeFrom(s, end) ==
    LET base == FirstNotOf(s, end)
        stop == FirstOf(s, base)
    IN IF base > Len(s) THEN <<>>
       ELSE <<SubSeq(s, base, stop - 1)>> \o TokenizeFrom(s, stop)

Tokenize(s) == TokenizeFrom(s, 1)

(* Mutant of WarningOf: the input_power_limited test of the last branch  *)
(* is missing.                                                             *)
WarningOfNoInputPowerLimited(t) ==
    CASE IsPrefix(DebugAccessoryWord, t) -> <<"DEBUG_ACCESSORY">>
      [] IsPrefix(BC12Word, t)           -> <<"BC_1_2">>
      [] IsPrefix(MissingRpWord, t)      -> <<"MISSING_RP">>
      [] IsPrefix(OtherWord, t) ->
             IF SplitPowerWarning THEN <<"INPUT_POWER_LIMITED">>
                                  ELSE <<"OTHER">>
      [] OTHER                           -> <<>>

(* !strncmp(reason, kw, strlen(kw)): kw is a prefix of the token (a       *)
(* shorter token differs at its NUL).  The tests run in the code's order *)
(* and the first match `continue`s; a token matching none adds nothing.   *)
WarningOf(t) ==
    CASE IsPrefix(DebugAccessoryWord, t) -> <<"DEBUG_ACCESSORY">>
      [] IsPrefix(BC12Word, t)           -> <<"BC_1_2">>
      [] IsPrefix(MissingRpWord, t)      -> <<"MISSING_RP">>
      [] IsPrefix(OtherWord, t) \/ IsPrefix(InputPowerLimitedWord, t) ->
             IF SplitPowerWarning THEN <<"INPUT_POWER_LIMITED">>
                                  ELSE <<"OTHER">>
      [] OTHER                           -> <<>>

(* The for loop over reasonsList, push_back'ing onto complianceWarnings.  *)
RECURSIVE WarningsOf(_)
WarningsOf(ts) ==
    IF ts = <<>> THEN <<>> ELSE WarningOf(Head(ts)) \o WarningsOf(Tail(ts))

(* The warnings one read of the file appends to an entry.                  *)
NonCompliantWarnings(text) == WarningsOf(Tokenize(text))

-----------------------------------------------------------------------------
(* The driver's side, outside this repository: non_compliant_reasons lists *)
(* its reason words as "[w1], [w2]" and a newline, as in spec 8.          *)
RECURSIVE JoinReasons(_)
JoinReasons(ws) ==
    IF Len(ws) <= 1
       THEN IF ws = <<>> THEN <<>> ELSE <<"[">> \o Head(ws) \o <<"]">>
       ELSE <<"[">> \o Head(ws) \o <<"]", ",", " ">> \o JoinReasons(Tail(ws))

DriverText(ws) == JoinReasons(ws) \o <<"\n">>

(* Reference, from spec 4.3 (6) and 8: the warning each reason word      *)
(* names; other and input_power_limited give OTHER, or INPUT_POWER_LIMITED *)
(* when the toggle is on (the spec names only the latter there; both is   *)
(* the code's reading); a word outside the vocabulary names none.         *)
SpecWarning(w) ==
    CASE w = DebugAccessoryWord    -> {"DEBUG_ACCESSORY"}
      [] w = BC12Word              -> {"BC_1_2"}
      [] w = MissingRpWord         -> {"MISSING_RP"}
      [] w \in {OtherWord, InputPowerLimitedWord} ->
             IF SplitPowerWarning THEN {"INPUT_POWER_LIMITED"} ELSE {"OTHER"}
      [] OTHER                     -> {}

(* The warnings of a vector, as a set (written out rather than ToSet,     *)
(* which keeps TLC from evaluating the bounded check below only once).    *)
WarningSet(v) == {v[k] : k \in DOMAIN v}

ExpectedWarnings(ws) == UNION {SpecWarning(ws[k]) : k \in DOMAIN ws}

(* The warnings decoded from the text of every list of at most MaxReasons *)
(* words are those the spec's table gives for the words.                  *)
DecodingAgreesUpToBound ==
    \A ws \in BoundedSeq(ReasonWords, MaxReasons) :
        WarningSet(NonCompliantWarnings(DriverText(ws))) = ExpectedWarnings(ws)
=============================================================================
