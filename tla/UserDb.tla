------------------------------- MODULE UserDb -------------------------------
(***************************************************************************)
(* The honeypot's userdb.txt: build_userdb.py writes it from the           *)
(* credentials attackers offered, the operator edits it or cleans it with  *)
(* validate_userdb.py --fix, the start-up gate checks it with the rules of *)
(* cowrie_userdb.py, and Cowrie loads it on every authentication.          *)
(*                                                                         *)
(* A word stands for the fields of its class: " " for whitespace, " pw"    *)
(* for what has whitespace at an edge, "/pw/" for a pattern, "/[/" for one *)
(* that does not compile, "high" for a field with a byte above 127.  A     *)
(* line is a sequence of words, what the colons part, and a file one of    *)
(* lines.  Comments the generator puts on top are left out.                *)
(***************************************************************************)
EXTENDS Integers, Sequences, FiniteSets, FiniteSetsExt, SequencesExt

CONSTANTS Plain,     (* words that are only what they look like            *)
          Offers,    (* pairs of texts that attackers try                  *)
          HandFiles, (* what the operator may write by hand                *)
          Top,       (* --top                                              *)
          MaxActs    (* bound: attempts and edits                          *)

ASSUME UserDbAssumption ==
  {"pw", "root"} \subseteq Plain /\ Top \in Nat \ {0} /\ MaxActs \in Nat

Denying  == {"!*", "!pw", "!/[/"}
Patterns == {"/pw/", "/[/"}
Broken   == {"/[/"}
Gapped   == Patterns \cup {"!/[/", "a/b", " ", " pw"}
Words    == Plain \cup Denying \cup Gapped \cup {"", "*", "#pw", "userdb", "long", "high"}

Strip(w) == IF w = " " THEN "" ELSE IF w = " pw" THEN "pw" ELSE w

(* A text as it lies in the file: the lines it is split into, and their    *)
(* fields.  That of a word is one field of one line.                       *)
Text(w) == <<<<w>>>>
IsWord(t) == Len(t) = 1 /\ Len(t[1]) = 1
WordOf(t) == t[1][1]
Compound == {<<<<"pw", "pw">>>>, <<<<"pw">>, <<"root", "x", "pw">>>>}
Texts == {Text(w) : w \in Words} \cup Compound

ASSUME OffersAreTexts == Offers \subseteq Texts \X Texts

VARIABLES seen,     \* how often each pair is in v_events
          userdb,   \* the live file
          tmpdb,    \* the temporary file next to it
          wpc,      \* the writer: "idle", "build" or "fix" before it has
                    \* written the temporary file, "written" after
          rendered, \* what it is to write
          allowed,  \* the pairs that are to be allowed by what was rendered,
          allows,   \* and by the live file: {} unless build_userdb wrote
                    \* it, else a set of one, the set of them (history)
          cowrie,   \* "up" or "down"
          acts      \* attempts and edits (bound)

userdbVars == <<seen, userdb, tmpdb, wpc, rendered, allowed, allows, cowrie, acts>>
-----------------------------------------------------------------------------
(* What Cowrie does.  load reads ascii; skips comments and lines of fewer  *)
(* than three fields; and takes the first field and the third, stripped.   *)
(* adduser drops a leading "!", and what looks like a pattern is compiled. *)
IsEntry(l) == l[1] # "#pw" /\ Len(l) >= 3
Bare(w) == CASE w = "!*" -> "*" [] w = "!pw" -> "pw" [] w = "!/[/" -> "/[/" [] OTHER -> w
LoadsEntry(l) == Strip(l[3]) # "" /\ {l[1], Bare(Strip(l[3]))} \cap Broken = {}
Loads(file) ==
  /\ "high" \notin UNION {ToSet(l) : l \in ToSet(file)}
  /\ \A l \in ToSet(file) : IsEntry(l) => LoadsEntry(l)

(* match_rule and checklogin: the first entry that matches decides.        *)
RuleMatches(rule, t) == rule = "*" \/ rule \in Patterns \/ t = Text(rule)
Hits(file, u, p) ==
  {i \in 1..Len(file) : /\ IsEntry(file[i])
                        /\ RuleMatches(file[i][1], u)
                        /\ RuleMatches(Bare(Strip(file[i][3])), p)}
Admits(file, u, p) ==
  LET hits == Hits(file, u, p)
  IN  hits # {} /\ Strip(file[Min(hits)][3]) \notin Denying
-----------------------------------------------------------------------------
(* check_line.  A line of more than three fields is not looked at further, *)
(* nor is the password when the login is a pattern.                        *)
Ignored(l) == l[1] = "#pw" \/ (Len(l) = 1 /\ Strip(l[1]) = "")
PatternOf(l) == IF l[1] \in Patterns THEN l[1] ELSE Strip(l[3])

IsFatal(l) ==
  ~ Ignored(l) /\ Len(l) = 3 /\ (Strip(l[3]) = "" \/ PatternOf(l) \in Broken)

(* Bug to catch: a pattern is looked for in the password only.             *)
IsFindingOfPassword(l) ==
  /\ ~ Ignored(l)
  /\ \/ Len(l) # 3
     \/ IsFatal(l)
     \/ Strip(l[3]) \in Patterns \cup {"*"} \cup (Denying \ {"!*"})
     \/ Strip(l[3]) # "!*" /\ l[1] \in (Gapped \ Patterns) \cup {"", "userdb", "*"}
IsFinding(l) ==
  /\ ~ Ignored(l)
  /\ \/ Len(l) # 3
     \/ IsFatal(l)
     \/ PatternOf(l) \in Patterns
     \/ l[1] = "*"
     \/ Strip(l[3]) \in {"*"} \cup (Denying \ {"!*"})
     \/ Strip(l[3]) # "!*" /\ l[1] \in Gapped \cup {"", "userdb"}

(* check_file and decode_file. *)
Decodes(file) == "high" \notin UNION {ToSet(l) : l \in ToSet(file)}
FindingsOf(file) == {l \in ToSet(file) : IsFinding(l)}
GatePasses(file) == Decodes(file) /\ \A l \in ToSet(file) : ~ IsFatal(l)
GateIsClean(file) == Decodes(file) /\ FindingsOf(file) = {}
-----------------------------------------------------------------------------
(* literal_pair_problem. *)
(* Bug to catch: a login that makes its line a comment.                    *)
IsLiteralPairHash(u, p) ==
  /\ IsWord(u) /\ IsWord(p)
  /\ WordOf(u) \notin {"", "userdb"} \cup Gapped
  /\ WordOf(p) # "" /\ Strip(WordOf(p)) = WordOf(p)
  /\ {WordOf(u), WordOf(p)} \cap ({"high", "*"} \cup Patterns) = {}
  /\ WordOf(p) \notin Denying
IsLiteralPair(u, p) ==
  /\ IsWord(u) /\ IsWord(p)
  /\ WordOf(u) \notin {"", "#pw", "userdb"} \cup Gapped
  /\ WordOf(p) # "" /\ Strip(WordOf(p)) = WordOf(p)
  /\ {WordOf(u), WordOf(p)} \cap ({"high", "*"} \cup Patterns) = {}
  /\ WordOf(p) \notin Denying

FormatPair(u, p) ==
  Front(u) \o <<Last(u) \o <<"x">> \o Head(p)>> \o Tail(p)
FormatDeny(login) == <<login, "x", "!*">>

Roots == {"root", "admin"}
IsRoot(u) == IsWord(u) /\ WordOf(u) \in Roots
IsLong(t) == t = Text("long")

(* The candidates: observed pairs that pass the check, fewer than 64       *)
(* characters each.  most_common leaves ties in the order of the rows.     *)
Candidates64(allowRoot) ==
  {o \in DOMAIN seen : /\ ~ IsLong(o[1]) /\ ~ IsLong(o[2])
                       /\ IsLiteralPair(o[1], o[2])
                       /\ IsRoot(o[1]) => allowRoot}
TopOf(C) ==
  {K \in SUBSET C : /\ Cardinality(K) = Min({Top, Cardinality(C)})
                    /\ \A a \in K, b \in C \ K : seen[a] >= seen[b]}

BodyOf(K, allowRoot) ==
  (IF allowRoot THEN <<>> ELSE <<FormatDeny("root"), FormatDeny("admin")>>)
  \o FlattenSeq([i \in 1..Cardinality(K) |->
                   FormatPair(SetToSeq(K)[i][1], SetToSeq(K)[i][2])])
-----------------------------------------------------------------------------
UserDbInit ==
  /\ seen = <<>> /\ userdb = <<>> /\ tmpdb = <<>>
  /\ wpc = "idle" /\ rendered = <<>> /\ allowed = {} /\ allows = {}
  /\ cowrie = "down" /\ acts = 0

(* An attacker offers a pair, and the event is ingested (external).  When  *)
(* the load fails, nothing is logged.                                      *)
Offer(o) ==
  /\ cowrie = "up" /\ Loads(userdb) /\ acts < MaxActs
  /\ seen' = [q \in DOMAIN seen \cup {o} |->
               (IF q \in DOMAIN seen THEN seen[q] ELSE 0) + (IF q = o THEN 1 ELSE 0)]
  /\ acts' = acts + 1
  /\ UNCHANGED <<userdb, tmpdb, wpc, rendered, allowed, allows, cowrie>>

(* The operator writes the live file by hand (external). *)
Edit(file) ==
  /\ wpc = "idle" /\ acts < MaxActs
  /\ userdb' = file /\ allows' = {}
  /\ acts' = acts + 1
  /\ UNCHANGED <<seen, tmpdb, wpc, rendered, allowed, cowrie>>

(* build_userdb, up to its own check: one finding, and nothing is written. *)
Build ==
  /\ wpc = "idle"
  /\ \E allowRoot \in BOOLEAN : \E K \in TopOf(Candidates64(allowRoot)) :
       /\ GateIsClean(BodyOf(K, allowRoot))
       /\ rendered' = BodyOf(K, allowRoot) /\ allowed' = {K}
  /\ wpc' = "build"
  /\ UNCHANGED <<seen, userdb, tmpdb, allows, cowrie, acts>>

(* validate_userdb --fix onto the live file: the lines found are left out. *)
FixUserDb ==
  /\ wpc = "idle" /\ Decodes(userdb)
  /\ rendered' = SelectSeq(userdb, LAMBDA l : ~ IsFinding(l)) /\ allowed' = {}
  /\ wpc' = "fix"
  /\ UNCHANGED <<seen, userdb, tmpdb, allows, cowrie, acts>>

WriterEnds == wpc' = "idle" /\ rendered' = <<>> /\ allowed' = {}

(* Both write userdb.txt.tmp, sync it, and rename it.  What a kill leaves  *)
(* of it is emptied by the next writer, and not kept here.                 *)
WriteTmp ==
  /\ wpc \in {"build", "fix"}
  /\ \/ /\ tmpdb' = rendered /\ wpc' = "written"
        /\ UNCHANGED <<rendered, allowed>>
     \/ UNCHANGED tmpdb /\ WriterEnds
  /\ UNCHANGED <<seen, userdb, allows, cowrie, acts>>

Rename ==
  /\ wpc = "written"
  /\ userdb' = tmpdb /\ tmpdb' = <<>> /\ allows' = allowed
  /\ WriterEnds
  /\ UNCHANGED <<seen, cowrie, acts>>

(* ExecStartPre, and the service; and it is stopped, or its host is. *)
StartCowrie ==
  /\ cowrie = "down" /\ GatePasses(userdb)
  /\ cowrie' = "up"
  /\ UNCHANGED <<seen, userdb, tmpdb, wpc, rendered, allowed, allows, acts>>

StopCowrie ==
  /\ cowrie = "up"
  /\ cowrie' = "down"
  /\ UNCHANGED <<seen, userdb, tmpdb, wpc, rendered, allowed, allows, acts>>

UserDbNext ==
  \/ \E o \in Offers : Offer(o)
  \/ \E file \in HandFiles : Edit(file)
  \/ Build \/ FixUserDb \/ WriteTmp \/ Rename
  \/ StartCowrie \/ StopCowrie

UserDbSpec == UserDbInit /\ [][UserDbNext]_userdbVars
-----------------------------------------------------------------------------
(* build_userdb.py:21-23, 89: of all texts an attacker may send, the file  *)
(* the generator installed accepts exactly the top pairs it took from the  *)
(* events, whatever was sprayed into them, and it loads.  Cowrie, which    *)
(* reads at any moment, finds it whole, also while the next one is being   *)
(* written and after a kill (34-36).                                       *)
AllowsTheTopPairs ==
  \A K \in allows :
    /\ Loads(userdb)
    /\ \A u, p \in Texts : Admits(userdb, u, p) <=> <<u, p>> \in K

(* cowrie_userdb.py:43-45: a file without a finding loads, and each entry  *)
(* is for the account it spells out, and the password it spells out unless *)
(* it denies them all.                                                     *)
CleanIsLiteral ==
  GateIsClean(userdb) =>
    /\ Loads(userdb)
    /\ \A l \in ToSet(userdb), t \in Texts :
         IsEntry(l) =>
           /\ RuleMatches(l[1], t) => t = Text(l[1])
           /\ RuleMatches(Bare(Strip(l[3])), t) => t = Text(Strip(l[3])) \/ Strip(l[3]) = "!*"

(* 10-validate-userdb.conf:5-7: a file the gate stops the sensor for is    *)
(* one that Cowrie could not load; dead but harmless lines are tolerated.  *)
FatalIsReal == Loads(userdb) => GatePasses(userdb)

(* The check reads the file as Cowrie does where it says so.               *)
RulesMatchCowrie == CleanIsLiteral /\ FatalIsReal

(* ARCHITECTURE.md:66: the start-up gate refuses a file that would fail to *)
(* load.  It does not when the line has a fourth field, when one pattern   *)
(* hides another, or when the pattern is in a deny rule.                   *)
GateKeepsCowrieUp ==
  [][cowrie = "down" /\ cowrie' = "up" => Loads(userdb)]_userdbVars
=============================================================================
