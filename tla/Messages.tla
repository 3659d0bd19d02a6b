------------------------------ MODULE Messages ------------------------------
(***************************************************************************)
(* What the functions of src/src/mw/megawifi.c put into the data of a      *)
(* command and read out of the data of an answer, where that takes more    *)
(* than a copy: strings one after the other, each with its terminator.     *)
(* What the module makes of them, or puts there itself, is external.       *)
(***************************************************************************)
EXTENDS Integers, Sequences, SequencesExt, FiniteSetsExt

CONSTANTS BufLen    \* MW_CMD_MAX_BUFLEN: bytes of data in a command

ASSUME BufLenAssumption == BufLen \in Nat \ {0}

Nul == 0
Null == <<-1>>          \* a null pointer in the place of a string
Refused == <<-2>>       \* what the functions do not send

Terminated(s) == Append(s, Nul)

-----------------------------------------------------------------------------
(* Strings for the game API.                                               *)

\* The terminators are not counted.
concat_strings_Bug(strs, max) ==
    IF Null \in ToSet(strs) \/ Len(FlattenSeq(strs)) > max
    THEN <<>> ELSE FlattenSeq([i \in DOMAIN strs |-> Terminated(strs[i])])

\* Nothing at all when one string is missing or does not fit.
concat_strings(strs, max) ==
    LET all == FlattenSeq([i \in DOMAIN strs |-> Terminated(strs[i])])
    IN  IF Null \in ToSet(strs) \/ Len(all) > max THEN <<>> ELSE all

\* A key, its value, the next key.
concat_kv_pairs(keys, values, max) ==
    concat_strings([i \in 1 .. 2 * Len(keys) |->
                       IF i % 2 = 1 THEN keys[(i + 1) \div 2] ELSE values[i \div 2]],
                   max)

\* mw_ga_endpoint_set()
Endpoint(endpoint, key) ==
    LET pos == concat_strings(<<endpoint, key>>, BufLen - 1)
    IN  IF pos = <<>> THEN Refused ELSE Terminated(pos)

\* mw_ga_key_value_add()
KeyValues(keys, values) ==
    LET pos == concat_kv_pairs(keys, values, BufLen - 1)
    IN  IF pos = <<>> /\ keys # <<>> THEN Refused ELSE Terminated(pos)

\* mw_ga_request(): method and the two numbers come before the strings.
GaRequest(method, path, keys, values) ==
    LET paths == concat_strings(path, BufLen - 4)
        pairs == concat_kv_pairs(keys, values, BufLen - 4 - Len(paths))
    IN  IF paths = <<>> \/ (pairs = <<>> /\ keys # <<>>)
        THEN Refused
        ELSE <<method, Len(path), Len(keys)>> \o Terminated(paths \o pairs)

-----------------------------------------------------------------------------
(* Time zone and time servers.                                             *)

\* Goes on after a server that is missing.
SntpCfg_Bug(tz, server) ==
    Terminated(Terminated(tz) \o FlattenSeq([i \in 1 .. 3 |->
        IF server[i] \in {Null, <<>>} THEN <<>> ELSE Terminated(server[i])]))

\* mw_sntp_cfg_set(): up to the first server that is missing or empty.
SntpCfg(tz, server) ==
    LET n == CHOOSE n \in 0 .. 3 :
                 /\ n = 3 \/ server[n + 1] \in {Null, <<>>}
                 /\ \A i \in 1 .. n : server[i] \notin {Null, <<>>}
    IN  Terminated(FlattenSeq([i \in 1 .. n + 1 |->
                       Terminated(IF i = 1 THEN tz ELSE server[i - 1])]))

\* The string at i, which counts from 1, and where the next one begins.
StringAt(in, i) ==
    LET nul == Min({j \in i .. Len(in) : in[j] = Nul})
    IN  SubSeq(in, i, nul - 1)
After(in, i) == i + Len(StringAt(in, i)) + 1

\* tokens_get(), for the four tokens it is called for: the empty one that ends
\* them is a token too.
tokens_get(in) ==
    LET at[i \in 1 .. 4] ==
            IF i = 1 THEN 1
            ELSE IF at[i - 1] = 0 \/ StringAt(in, at[i - 1]) = <<>> THEN 0
            ELSE After(in, at[i - 1])
    IN  [i \in 1 .. 4 |-> IF at[i] = 0 THEN Null ELSE StringAt(in, at[i])]

-----------------------------------------------------------------------------
(* The access points of mw_ap_scan().                                      *)

\* A char of the console is signed.
Char(byte) == IF byte < 128 THEN byte ELSE byte - 256

\* The length is taken for the whole of the access point.
ap_fill_next_Bug(data, pos, len) ==
    IF pos >= len THEN 0
    ELSE IF pos + Char(data[pos + 4]) > len THEN -1
    ELSE pos + 4 + data[pos + 4]

\* mw_ap_fill_next(): 0 at the end, -1 for an access point that does not fit,
\* else the position of the next one.  Positions count from 0.
ap_fill_next(data, pos, len) ==
    IF pos >= len THEN 0
    ELSE IF pos + Char(data[pos + 4]) + 4 > len THEN -1
    ELSE pos + 4 + data[pos + 4]

\* What it takes from there; the name is left where it is.
ApData(data, pos) ==
    [auth |-> data[pos + 1], channel |-> data[pos + 2], rssi |-> Char(data[pos + 3]),
     ssid_len |-> data[pos + 4], ssid |-> pos + 4]

\* The program asks for one after the other; what it gets.  At a position behind
\* the data it gets nothing more.
ApWalk(data, len) ==
    LET from[pos \in 0 .. len] ==
            LET next == ap_fill_next(data, pos, len)
            IN  IF next <= 0 THEN <<>>
                ELSE <<ApData(data, pos)>> \o (IF next < len THEN from[next] ELSE <<>>)
    IN  from[0]
=============================================================================
