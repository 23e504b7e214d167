---------------------------- MODULE CzechSorting ----------------------------
(* The Czech sorting (proj4.c): a column of a table is printed, of all its rows  *)
(* or of those before or after a word, as it is or in the Czech order.            *)
(* Words are named and CONSTANT Letters spells them; a letter with a caron, an      *)
(* acute, a ring or a diaeresis is written v, a, o or u after it.                     *)
EXTENDS Integers, Sequences, FiniteSets, SequencesExt, FiniteSetsExt, Functions

CONSTANTS Letters,          \* the letters of each word
          Commands, Files   \* argument lists and input files

VARIABLES args, file, s

vars == <<args, file, s>>
Codepages == {"CP28592", "CP1250", "CP852"}

-----------------------------------------------------------------------------
(* Letters that are one to the first comparison: the place of the row is their value,  *)
(* 11 is kept for ch.                                                                    *)
Primary ==
    <<{" "}, {"A", "a", "Aa", "aa"}, {"B", "b"}, {"C", "c"}, {"Cv", "cv"},
      {"D", "d", "Dv", "dv"}, {"E", "e", "Ea", "ea", "Ev", "ev"}, {"F", "f"}, {"G", "g"},
      {"H", "h"}, {}, {"I", "i", "Ia", "ia"}, {"J", "j"}, {"K", "k"}, {"L", "l"}, {"M", "m"},
      {"N", "n", "Nv", "nv"}, {"O", "o", "Oa", "oa"}, {"P", "p"}, {"Q", "q"}, {"R", "r"},
      {"Rv", "rv"}, {"S", "s"}, {"Sv", "sv"}, {"T", "t", "Tv", "tv"},
      {"U", "u", "Ua", "ua", "Uo", "uo"}, {"V", "v"}, {"W", "w"}, {"X", "x"},
      {"Y", "y", "Ya", "ya"}, {"Z", "z"}, {"Zv", "zv"}>>
VALUE_CH == 11

(* And to the second.  The table of win1250 has Tv where the one of iso-8859-2 has it.     *)
Secondary ==
    <<{"A", "a"}, {"Aa", "aa"}, {"D", "d"}, {"Dv", "dv"}, {"E", "e"}, {"Ea", "ea"},
      {"Ev", "ev"}, {"I", "i"}, {"Ia", "ia"}, {"N", "n"}, {"Nv", "nv"}, {"O", "o"},
      {"Oa", "oa"}, {"T", "t"}, {"Tv", "tv"}, {"U", "u"}, {"Ua", "ua"}, {"Uo", "uo"},
      {"Y", "y"}, {"Ya", "ya"}>>
ValueIn(table, l) ==
    IF \E n \in DOMAIN table : l \in table[n] THEN CHOOSE n \in DOMAIN table : l \in table[n] ELSE 0

(* The byte of a letter that a table lacks, as a signed char.                                  *)
Ascii == <<"A", "B", "C", "D", "E", "F", "G", "H", "I", "J", "K", "L", "M", "N", "O", "P", "Q",
           "R", "S", "T", "U", "V", "W", "X", "Y", "Z">>
ascii == <<"a", "b", "c", "d", "e", "f", "g", "h", "i", "j", "k", "l", "m", "n", "o", "p", "q",
           "r", "s", "t", "u", "v", "w", "x", "y", "z">>
Accented ==
    [CP28592 |-> [Cv |-> 200, cv |-> 232, Rv |-> 216, rv |-> 248, Sv |-> 169, sv |-> 185,
                  Tv |-> 171, tv |-> 187, ou |-> 246, Zv |-> 174, zv |-> 190],
     CP1250 |-> [Cv |-> 200, cv |-> 232, Rv |-> 216, rv |-> 248, Sv |-> 138, sv |-> 154,
                 Tv |-> 141, tv |-> 157, ou |-> 246, Zv |-> 142, zv |-> 158],
     CP852 |-> [Cv |-> 172, cv |-> 159, Rv |-> 252, rv |-> 253, Sv |-> 230, sv |-> 231,
                Tv |-> 155, tv |-> 156, ou |-> 148, Zv |-> 166, zv |-> 167]]
Byte(l, cp) ==
    IF \E n \in DOMAIN Ascii : Ascii[n] = l THEN 64 + CHOOSE n \in DOMAIN Ascii : Ascii[n] = l
    ELSE IF \E n \in DOMAIN ascii : ascii[n] = l THEN 96 + CHOOSE n \in DOMAIN ascii : ascii[n] = l
    ELSE Accented[cp][l] - 256

pcp(l, cp) == IF ValueIn(Primary, l) # 0 THEN ValueIn(Primary, l) ELSE Byte(l, cp)
scp(l, cp) ==
    IF ValueIn(Secondary, l) # 0 /\ ~(cp = "CP1250" /\ l \in {"Tv", "tv"})
    THEN ValueIn(Secondary, l) ELSE Byte(l, cp)

(* The values of a word for the first comparison: c and h together are one.                    *)
IsC(w, n) == Letters[w][n] \in {"C", "c"}
IsH(w, n) == Letters[w][n] \in {"H", "h"}
Units(w, cp) ==
    LET one(us, n) ==
            IF n > 1 /\ IsC(w, n - 1) /\ IsH(w, n) THEN us
            ELSE Append(us, IF IsC(w, n) /\ n < Len(Letters[w]) /\ IsH(w, n + 1) THEN VALUE_CH
                            ELSE pcp(Letters[w][n], cp))
    IN FoldLeft(one, <<>>, [n \in DOMAIN Letters[w] |-> n])

FirstDifference(u, v) ==
    LET Differ == {n \in DOMAIN u \intersect DOMAIN v : u[n] # v[n]}
    IN IF Differ = {} THEN 0 ELSE IF u[Min(Differ)] > v[Min(Differ)] THEN 1 ELSE -1

mystrcmp(w1, w2, cp) ==
    LET u == Units(w1, cp)
        v == Units(w2, cp)
        second(w) == [n \in DOMAIN Letters[w] |-> scp(Letters[w][n], cp)]
    IN IF FirstDifference(u, v) # 0 THEN FirstDifference(u, v)
       ELSE IF Len(u) # Len(v) THEN IF Len(u) < Len(v) THEN -1 ELSE 1
       ELSE FirstDifference(second(w1), second(w2))

-----------------------------------------------------------------------------
(* The arguments: options, and at the end the two files.                                          *)
Defaults ==
    [progState |-> "PS_HELP", sort |-> "SORT_NONE", printCol |-> "", selectRow |-> "RS_ALL",
     selectCol |-> "", selectString |-> "", codepage |-> "CP28592", err |-> FALSE, skip |-> 0]
PageNames == [win1250 |-> "CP1250", cp852 |-> "CP852"] @@ ("iso-8859-2" :> "CP28592")
Rows == ("--after" :> "RS_AFTER") @@ ("--before" :> "RS_BEFORE")
Sorts == ("--sort" :> "SORT_BUBBLE") @@ ("--usort" :> "SORT_UNIQUE")

ParseOne(p, n) ==
    LET a == args[n]
    IN IF p.skip > 0 THEN [p EXCEPT !.skip = @ - 1]
       ELSE IF a \in DOMAIN Rows /\ p.selectRow = "RS_ALL"
       THEN [p EXCEPT !.selectRow = Rows[a], !.selectCol = args[n + 1],
                      !.selectString = args[n + 2], !.skip = 2]
       ELSE IF a \in DOMAIN Sorts /\ p.sort = "SORT_NONE" THEN [p EXCEPT !.sort = Sorts[a]]
       ELSE IF a = "--print" THEN [p EXCEPT !.printCol = args[n + 1], !.skip = 1]
       ELSE IF a = "--codepage" /\ args[n + 1] \in DOMAIN PageNames
       THEN [p EXCEPT !.codepage = PageNames[args[n + 1]], !.skip = 1]
       ELSE [p EXCEPT !.err = TRUE]
parseParams ==
    IF args \in {<<>>, <<"-h">>} THEN Defaults
    ELSE IF Len(args) < 4 THEN [Defaults EXCEPT !.err = TRUE]
    ELSE LET p == FoldLeft(ParseOne, [Defaults EXCEPT !.progState = "PS_PRINT"],
                           [n \in 1 .. Len(args) - 2 |-> n])
         IN [p EXCEPT !.err = @ \/ p.printCol = ""]

Init ==
    /\ args \in Commands
    /\ file \in Files
    /\ s = [at |-> "params", prm |-> Defaults, records |-> <<>>, pass |-> 0, out |-> <<>>]

Params ==
    /\ s.at = "params"
    /\ s' = [s EXCEPT !.prm = parseParams,
                      !.at = IF parseParams.err THEN "error"
                             ELSE IF parseParams.progState = "PS_HELP" THEN "help" ELSE "load"]
    /\ UNCHANGED <<args, file>>

(* Every row has to have as many words as the first has names; more are not read.                  *)
LoadOK == file # <<>> /\ \A r \in 2 .. Len(file) : Len(file[r]) >= Len(file[1])
(* 0 is no column.                                                                                    *)
getCollumnID(name) ==
    IF \E n \in DOMAIN file[1] : file[1][n] = name
    THEN Min({n \in DOMAIN file[1] : file[1][n] = name}) ELSE 0

select(col, selCol) ==
    LET chosen(row) ==
            \/ s.prm.selectRow = "RS_ALL"
            \/ /\ s.prm.selectRow = "RS_AFTER"
               /\ mystrcmp(row[selCol], s.prm.selectString, s.prm.codepage) >= 0
            \/ /\ s.prm.selectRow = "RS_BEFORE"
               /\ mystrcmp(row[selCol], s.prm.selectString, s.prm.codepage) <= 0
        rows == SelectSeq(Tail(file), chosen)
    IN [n \in DOMAIN rows |-> rows[n][col]]

Load ==
    /\ s.at = "load"
    /\ LET col == getCollumnID(s.prm.printCol)
           selCol == getCollumnID(s.prm.selectCol)
       IN s' = IF ~LoadOK THEN [s EXCEPT !.at = "E_IO"]
               ELSE IF Len(file) = 1 THEN [s EXCEPT !.at = "nothing"]
               ELSE IF col = 0 \/ (s.prm.selectRow # "RS_ALL" /\ selCol = 0)
               THEN [s EXCEPT !.at = "E_BAD_COLLUMN"]
               ELSE IF select(col, selCol) = <<>> THEN [s EXCEPT !.at = "nothing"]
               ELSE [s EXCEPT !.records = select(col, selCol),
                              !.at = IF s.prm.sort = "SORT_NONE" THEN "print" ELSE "sort"]
    /\ UNCHANGED <<args, file>>

(* One pass: the least of the words that are not in their places goes to the front.                     *)
Sorted(recs, pass, cp) ==
    LET one(rs, n) ==
            IF mystrcmp(rs[n], rs[n + 1], cp) > 0
            THEN [rs EXCEPT ![n] = rs[n + 1], ![n + 1] = rs[n]] ELSE rs
    IN FoldLeft(one, recs, [n \in 1 .. Len(recs) - pass |-> Len(recs) - n])
Sort ==
    /\ s.at = "sort"
    /\ s' = IF s.pass < Len(s.records)
            THEN [s EXCEPT !.records = Sorted(s.records, s.pass + 1, s.prm.codepage), !.pass = @ + 1]
            ELSE [s EXCEPT !.at = IF s.prm.sort = "SORT_UNIQUE" THEN "usort" ELSE "print"]
    /\ UNCHANGED <<args, file>>

(* Of words that are the same the last one stays.                                                        *)
Unique ==
    /\ s.at = "usort"
    /\ LET recs == s.records
           last(n) == n = Len(recs) \/ mystrcmp(recs[n], recs[n + 1], s.prm.codepage) # 0
           kept == SelectSeq([n \in DOMAIN recs |-> n], last)
       IN s' = [s EXCEPT !.at = "print", !.records = [n \in DOMAIN kept |-> recs[kept[n]]]]
    /\ UNCHANGED <<args, file>>

RecordPrint ==
    /\ s.at = "print"
    /\ s' = [s EXCEPT !.at = "done", !.out = s.records]
    /\ UNCHANGED <<args, file>>

Next == Params \/ Load \/ Sort \/ Unique \/ RecordPrint
Spec == Init /\ [][Next]_vars

-----------------------------------------------------------------------------
(* Sorted words are those of the rows that were asked for, each as often as it is there, or       *)
(* once for all that the comparison takes for one, and each is after the one before it              *)
(* (sort, usort, select).                                                                             *)
Column == select(getCollumnID(s.prm.printCol), getCollumnID(s.prm.selectCol))
Count(ws, w) == Cardinality({n \in DOMAIN ws : ws[n] = w})
PrintsInOrder ==
    s.at = "done" =>
        LET cmp(w1, w2) == mystrcmp(w1, w2, s.prm.codepage)
        IN /\ s.prm.sort # "SORT_UNIQUE" => \A w \in ToSet(Column) \union ToSet(s.out) : Count(s.out, w) = Count(Column, w)
           /\ s.prm.sort = "SORT_UNIQUE" =>
                  /\ ToSet(s.out) \subseteq ToSet(Column)
                  /\ \A w \in ToSet(Column) : \E v \in ToSet(s.out) : cmp(v, w) = 0
           /\ s.prm.sort # "SORT_NONE" =>
                  \A n \in 2 .. Len(s.out) :
                      cmp(s.out[n - 1], s.out[n]) < IF s.prm.sort = "SORT_UNIQUE" THEN 0 ELSE 1

(* The comparison is an order of the words: one of two is the greater whichever is the first,     *)
(* and three do not go round; and the order is the same in every code page, but that win1250         *)
(* has no second value for Tv and in cp852 cv is before Cv (mystrcmp and its tables).                  *)
Quirks == {"Cv", "cv", "Tv", "tv"}
ComparisonOrders ==
    s.at = "print" =>
        \A w1, w2 \in ToSet(s.records) :
            LET cp == s.prm.codepage
            IN /\ mystrcmp(w1, w2, cp) = -mystrcmp(w2, w1, cp)
               /\ \A w3 \in ToSet(s.records) :
                      mystrcmp(w1, w2, cp) <= 0 /\ mystrcmp(w2, w3, cp) <= 0 => mystrcmp(w1, w3, cp) <= 0
               /\ \A other \in Codepages :
                      \/ mystrcmp(w1, w2, cp) = mystrcmp(w1, w2, other)
                      \/ \E n \in DOMAIN Letters[w1], k \in DOMAIN Letters[w2] :
                             {Letters[w1][n], Letters[w2][k]} \subseteq Quirks \union {"T", "t"}
=============================================================================
