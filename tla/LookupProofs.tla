---------------------------- MODULE LookupProofs ----------------------------
(* What Lookup checks on small instances, for all of them: a name is found     *)
(* exactly where it stands in code, the Java scanner keeps the code of a legal *)
(* text, the name of an extraction becomes the user's, the two conversions of  *)
(* columns are inverse to each other, doctor agrees with the ways to a         *)
(* backend, applying edits one after the other from the end of a file gives    *)
(* what they mean at once, a dry run shows just that, and the fixed order in   *)
(* which a server's changes are made keeps what the server meant.              *)
(*                                                                             *)
(* An answer is a function of its query, so the invariant says only whose      *)
(* value it is; the work is in the functions.  What a recursion computes is    *)
(* stated by UpTo, induction up to a bound.                                    *)
EXTENDS Lookup, FiniteSetTheorems, FunctionTheorems, WellFoundedInduction, SequenceTheorems, TLAPS

(* ------------------------- induction and recursion ----------------------- *)

\* A set of natural numbers that is not empty has a least element.
LEMMA LeastNat ==
    ASSUME NEW T \in SUBSET Nat, T # {}
    PROVE  \E x \in T : \A y \in T : x <= y
<1> DEFINE R == {ss \in Nat \X Nat : ss[1] < ss[2]}
<1>1. IsWellFoundedOn(R, Nat)
    BY NatLessThanWellFounded DEF OpToRel
<1> HIDE DEF R
<1>2. PICK x \in T : \A y \in T : ~(<<y, x>> \in R)
    BY <1>1, WFMin
<1>3. ASSUME NEW y \in T PROVE x <= y
    <2>1. ~(y < x)
        BY <1>2 DEF R
    <2> QED
        BY <2>1
<1> QED
    BY <1>3

\* The place a search finds is the first that is open.
LEMMA FirstMeans ==
    ASSUME NEW S \in SUBSET Nat, S # {}
    PROVE  /\ Min(S) \in S /\ \A k \in S : Min(S) <= k
           /\ Least(S) \in S /\ \A k \in S : Least(S) <= k
<1>1. PICK k \in S : \A m \in S : k <= m
    BY LeastNat
<1> QED
    BY <1>1 DEF Min, Least

\* What holds of 0, and of k + 1 with k, holds up to n.
LEMMA UpTo ==
    ASSUME NEW n \in Nat, NEW T \in SUBSET Nat, 0 \in T,
           \A k \in 0 .. n - 1 : k \in T => k + 1 \in T
    PROVE  \A k \in 0 .. n : k \in T
<1> DEFINE U == {k \in 0 .. n : k \notin T}
<1> SUFFICES ASSUME U # {} PROVE FALSE
    OBVIOUS
<1>1. PICK k \in U : \A m \in U : k <= m
    <2>1. U \in SUBSET Nat
        OBVIOUS
    <2> HIDE DEF U
    <2> QED
        BY <2>1, LeastNat
<1>2. k # 0 /\ k - 1 \in 0 .. n - 1 /\ k - 1 \notin U /\ (k - 1) + 1 = k
    BY <1>1
<1> QED
    BY <1>1, <1>2

\* f starts with b and goes on by F.
Solves(f, n, S, b, F) == f \in [0 .. n -> S] /\ f[0] = b /\ \A m \in 1 .. n : f[m] = F[m][f[m - 1]]

\* A function on 0 .. n that is defined by its first value and a step exists.
LEMMA Recursion ==
    ASSUME NEW n \in Nat, NEW S, NEW b \in S, NEW F \in [1 .. n -> [S -> S]]
    PROVE  \E f : Solves(f, n, S, b, F)
<1> DEFINE T == {k \in Nat : \E f : Solves(f, k, S, b, F)}
<1>1. 0 \in T
    <2>1. Solves([m \in 0 .. 0 |-> b], 0, S, b, F)
        BY DEF Solves
    <2> QED
        BY <2>1
<1>2. ASSUME NEW k \in 0 .. n - 1, k \in T
      PROVE  k + 1 \in T
    <2>1. PICK f : Solves(f, k, S, b, F)
        BY <1>2
    <2>0. k \in Nat /\ 0 \in 0 .. k /\ k \in 0 .. k /\ k + 1 \in 1 .. n /\ 0 # k + 1 /\ k + 1 \in Nat
          /\ 0 \in 0 .. k + 1
        OBVIOUS
    <2>2. /\ f \in [0 .. k -> S] /\ f[0] = b
          /\ \A m \in 1 .. k : f[m] = F[m][f[m - 1]]
        BY <2>1 DEF Solves
    <2>3. F[k + 1] \in [S -> S] /\ f[k] \in S
        BY <2>0, <2>2
    <2> DEFINE y == F[k + 1][f[k]]
    <2>4. y \in S
        BY <2>3
    <2> HIDE DEF y
    <2> DEFINE g == [m \in 0 .. k + 1 |-> IF m = k + 1 THEN y ELSE f[m]]
    <2>5. \A m \in 0 .. k + 1 : (m = k + 1 => g[m] = y) /\ (m # k + 1 => m \in 0 .. k /\ g[m] = f[m])
        OBVIOUS
    <2>6. g \in [0 .. k + 1 -> S]
        <3>1. \A m \in 0 .. k : f[m] \in S
            BY <2>2
        <3>2. \A m \in 0 .. k + 1 : (IF m = k + 1 THEN y ELSE f[m]) \in S
            BY <3>1, <2>4, <2>5
        <3> QED
            BY <3>2
    <2> HIDE DEF g
    <2>7. g[0] = b
        BY <2>0, <2>2, <2>5
    <2>8. \A m \in 1 .. k + 1 : m - 1 \in 0 .. k /\ g[m - 1] = f[m - 1]
        BY <2>5
    <2>9. \A m \in 1 .. k + 1 : g[m] = F[m][g[m - 1]]
        <3>1. ASSUME NEW m \in 1 .. k + 1, m = k + 1
              PROVE  g[m] = F[m][g[m - 1]]
            <4>1. g[m] = y /\ m - 1 = k
                BY <2>5, <3>1
            <4> QED
                BY <4>1, <2>8, <3>1 DEF y
        <3>2. ASSUME NEW m \in 1 .. k + 1, m # k + 1
              PROVE  g[m] = F[m][g[m - 1]]
            <4>1. m \in 1 .. k /\ g[m] = f[m]
                BY <2>5, <3>2
            <4> QED
                BY <4>1, <2>2, <2>8
        <3> QED
            BY <3>1, <3>2
    <2>10. Solves(g, k + 1, S, b, F)
        BY <2>6, <2>7, <2>9 DEF Solves
    <2> QED
        BY <2>0, <2>10
<1>3. T \in SUBSET Nat
    OBVIOUS
<1> HIDE DEF T
<1>4. n \in T
    <2>1. \A k \in 0 .. n : k \in T
        BY <1>1, <1>2, <1>3, UpTo
    <2> QED
        BY <2>1
<1> QED
    BY <1>4 DEF T

(* --------------------------------- doctor -------------------------------- *)

\* What is known of a language of the support matrix.
LEMMA MatrixMeans ==
    ASSUME NEW g \in DOMAIN SupportMatrix
    PROVE  /\ g \in DOMAIN Builtin
           /\ SupportMatrix[g].level \in {"supported", "experimental", "planned", "unsupported"}
           /\ ~Unsupported(g) => /\ SupportMatrix[g].server = Builtin[g]
                                 /\ Builtin[g] # "" /\ Builtin[g] # "local"
           /\ Unsupported(g) <=> SupportMatrix[g].level = "unsupported"
<1>1. g \in {"go", "rust", "typescript", "javascript", "python", "java", "kotlin"}
    BY DEF SupportMatrix
<1>2. /\ SupportMatrix["go"].level = "supported" /\ SupportMatrix["go"].server = "gopls"
      /\ SupportMatrix["rust"].level = "experimental" /\ SupportMatrix["rust"].server = "rust-analyzer"
      /\ SupportMatrix["typescript"].level = "experimental" /\ SupportMatrix["typescript"].server = "tsserver"
      /\ SupportMatrix["javascript"].level = "experimental" /\ SupportMatrix["javascript"].server = "tsserver"
      /\ SupportMatrix["python"].level = "planned" /\ SupportMatrix["python"].server = "pyright"
      /\ SupportMatrix["java"].level = "unsupported" /\ SupportMatrix["java"].server = ""
      /\ SupportMatrix["kotlin"].level = "unsupported" /\ SupportMatrix["kotlin"].server = ""
    BY DEF SupportMatrix, Row
<1>3. /\ Builtin["go"] = "gopls"
      /\ Builtin["rust"] = "rust-analyzer"
      /\ Builtin["typescript"] = "tsserver"
      /\ Builtin["javascript"] = "tsserver"
      /\ Builtin["python"] = "pyright"
    BY DEF Builtin
<1>4. g \in DOMAIN Builtin
    BY <1>1 DEF Builtin
<1>5. Unsupported(g) <=> SupportMatrix[g].level = "unsupported"
    BY DEF Unsupported
<1>7. CASE g = "go"
    BY <1>2, <1>3, <1>4, <1>5, <1>7
<1>8. CASE g = "rust"
    BY <1>2, <1>3, <1>4, <1>5, <1>8
<1>9. CASE g \in {"typescript", "javascript"}
    BY <1>2, <1>3, <1>4, <1>5, <1>9
<1>10. CASE g = "python"
    BY <1>2, <1>3, <1>4, <1>5, <1>10
<1>11. CASE g \in {"java", "kotlin"}
    BY <1>2, <1>4, <1>5, <1>11
<1> QED
    BY <1>1, <1>7, <1>8, <1>9, <1>10, <1>11

\* Two sequences of one element, one after the other.
LEMMA Pairing ==
    ASSUME NEW a, NEW b
    PROVE  <<a>> \o <<b>> = <<a, b>>
<1>1. DOMAIN (<<a>> \o <<b>>) = 1 .. 2
    OBVIOUS
<1>2. (<<a>> \o <<b>>)[1] = a
    OBVIOUS
<1>3. (<<a>> \o <<b>>)[2] = b
    OBVIOUS
<1>4. <<a>> \o <<b>> = [i \in 1 .. 2 |-> (<<a>> \o <<b>>)[i]]
    <2>1. <<a>> \o <<b>> \in Seq({a, b})
        OBVIOUS
    <2> QED
        BY <1>1, <2>1
<1>5. <<a, b>> = [i \in 1 .. 2 |-> <<a, b>>[i]]
    OBVIOUS
<1>6. \A i \in 1 .. 2 : <<a, b>>[i] = (<<a>> \o <<b>>)[i]
    <2>1. \A i \in 1 .. 2 : i = 1 \/ i = 2
        OBVIOUS
    <2> QED
        BY <1>2, <1>3, <2>1
<1> QED
    BY <1>4, <1>5, <1>6

\* The local adapter is a rung of the ladder.
LocalAdapter(cfg, g, ws) == g \in Web /\ AvailableAt(cfg.adapter = "set", ws)
\* The ladder has at most two rungs, the local adapter first.
LadderFacts(cfg, g, ws) ==
    LET server == ResolvedServer(cfg, g, ws)
        ladder == Ladder(cfg, g, ws)
        web == LocalAdapter(cfg, g, ws)
    IN /\ DOMAIN ladder = {} \/ DOMAIN ladder = {1} \/ DOMAIN ladder = {1, 2}
       /\ (web \/ server # "") => 1 \in DOMAIN ladder
       /\ ladder = << >> <=> 1 \notin DOMAIN ladder
       /\ web => ladder[1] = Rung("tsmorph", "")
       /\ \A k \in DOMAIN ladder : \/ web /\ ladder[k] = Rung("tsmorph", "")
                                   \/ server # "" /\ ladder[k] = Rung("lsp", server)

\* So it is for every configuration and machine.
LEMMA LadderMeans ==
    ASSUME NEW cfg, NEW g, NEW ws
    PROVE  LadderFacts(cfg, g, ws)
<1> DEFINE server == ResolvedServer(cfg, g, ws)
           web == LocalAdapter(cfg, g, ws)
           ladder == Ladder(cfg, g, ws)
           A == Rung("tsmorph", "")
           B == Rung("lsp", server)
<1>1. ladder = (IF web THEN <<A>> ELSE << >>) \o (IF server # "" THEN <<B>> ELSE << >>)
    BY DEF Ladder, LocalAdapter
<1> HIDE DEF server, web, ladder, A, B
<1>2. CASE web /\ server # ""
    <2>1. ladder = <<A>> \o <<B>>
        BY <1>1, <1>2
    <2>2. ladder = <<A, B>>
        BY <2>1, Pairing
    <2>3. DOMAIN ladder = {1, 2} /\ ladder[1] = A /\ ladder[2] = B /\ ladder # << >>
        BY <2>2
    <2> QED
        BY <1>2, <2>3 DEF LadderFacts, server, web, ladder, A, B
<1>3. CASE web /\ server = ""
    <2>1. ladder = <<A>> \o << >>
        BY <1>1, <1>3
    <2>2. DOMAIN ladder = {1} /\ ladder[1] = A /\ ladder # << >>
        BY <2>1
    <2> QED
        BY <1>3, <2>2 DEF LadderFacts, server, web, ladder, A, B
<1>4. CASE ~web /\ server # ""
    <2>1. ladder = << >> \o <<B>>
        BY <1>1, <1>4
    <2>2. DOMAIN ladder = {1} /\ ladder[1] = B /\ ladder # << >>
        BY <2>1
    <2> QED
        BY <1>4, <2>2 DEF LadderFacts, server, web, ladder, A, B
<1>5. CASE ~web /\ server = ""
    <2>1. ladder = << >> \o << >>
        BY <1>1, <1>5
    <2>2. DOMAIN ladder = {} /\ ladder = << >>
        BY <2>1
    <2> QED
        BY <1>5, <2>2 DEF LadderFacts, server, web, ladder, A, B
<1> QED
    BY <1>2, <1>3, <1>4, <1>5

\* A chosen backend is a rung of the ladder and the first that supports the operation.
LEMMA ChoiceMeans ==
    ASSUME NEW cfg, NEW g, NEW ws, NEW op, ~Unsupported(g)
    PROVE  LET server == ResolvedServer(cfg, g, ws)
               web == LocalAdapter(cfg, g, ws)
               choice == SelectForOperation(cfg, g, ws, op)
           IN /\ \/ /\ choice.error \in {"no server configured", "unsupported operation"}
                    /\ choice.backend = "none"
                 \/ web /\ choice = Rung("tsmorph", "")
                 \/ server # "" /\ choice = Rung("lsp", server)
              /\ (op = "rename" /\ (web \/ server # "")) => choice.error = "none"
              /\ (op = "rename" /\ web) => choice = Rung("tsmorph", "")
<1> DEFINE server == ResolvedServer(cfg, g, ws)
           web == LocalAdapter(cfg, g, ws)
           choice == SelectForOperation(cfg, g, ws, op)
           ladder == Ladder(cfg, g, ws)
           able == {k \in DOMAIN ladder : Supports(ladder[k], g, op)}
<1>1. choice = IF ladder = << >> THEN Refused("no server configured")
               ELSE IF able = {} THEN Refused("unsupported operation")
               ELSE ladder[Min(able)]
    BY DEF SelectForOperation
<1> HIDE DEF choice, able
<1>2. /\ DOMAIN ladder = {} \/ DOMAIN ladder = {1} \/ DOMAIN ladder = {1, 2}
      /\ (web \/ server # "") => 1 \in DOMAIN ladder
      /\ ladder = << >> <=> 1 \notin DOMAIN ladder
      /\ web => ladder[1] = Rung("tsmorph", "")
      /\ \A k \in DOMAIN ladder : \/ web /\ ladder[k] = Rung("tsmorph", "")
                                  \/ server # "" /\ ladder[k] = Rung("lsp", server)
    <2>0. LadderFacts(cfg, g, ws)
        BY LadderMeans
    <2>1. DOMAIN ladder = {} \/ DOMAIN ladder = {1} \/ DOMAIN ladder = {1, 2}
        BY <2>0 DEF LadderFacts
    <2>2. (web \/ server # "") => 1 \in DOMAIN ladder
        BY <2>0 DEF LadderFacts
    <2>3. ladder = << >> <=> 1 \notin DOMAIN ladder
        BY <2>0 DEF LadderFacts
    <2>4. web => ladder[1] = Rung("tsmorph", "")
        BY <2>0 DEF LadderFacts
    <2>5. \A k \in DOMAIN ladder : \/ web /\ ladder[k] = Rung("tsmorph", "")
                                   \/ server # "" /\ ladder[k] = Rung("lsp", server)
        BY <2>0 DEF LadderFacts
    <2> QED
        BY <2>1, <2>2, <2>3, <2>4, <2>5
<1>13. DOMAIN ladder = {} \/ DOMAIN ladder = {1} \/ DOMAIN ladder = {1, 2}
    BY <1>2, Zenon
<1>14. \A k \in DOMAIN ladder : k \in Nat /\ k >= 1
    BY <1>13
<1>3. ASSUME NEW rung, op = "rename"
      PROVE  Supports(rung, g, op)
    BY <1>3 DEF Supports, Operations, GoOperations, FullOperations
<1>4. \A why : Refused(why).error = why /\ Refused(why).backend = "none"
    BY DEF Refused
<1>5. \A b, v : Rung(b, v).error = "none"
    BY DEF Rung
<1> HIDE DEF server, web, ladder
<1> USE DEF able
<1>6. able # {} => Min(able) \in able /\ \A k \in able : Min(able) <= k
    <2>1. able \in SUBSET Nat
        BY <1>14
    <2> HIDE DEF able
    <2> QED
        BY <2>1, FirstMeans
<1>7. able # {} => \/ web /\ ladder[Min(able)] = Rung("tsmorph", "")
                   \/ server # "" /\ ladder[Min(able)] = Rung("lsp", server)
    <2>1. able # {} => Min(able) \in DOMAIN ladder
        BY <1>6
    <2> QED
        BY <2>1, <1>2
<1>8. ASSUME op = "rename", ladder # << >>
      PROVE  able # {} /\ Min(able) = 1
    <2>1. 1 \in DOMAIN ladder
        BY <1>2, <1>8, Zenon
    <2>2. 1 \in able
        BY <2>1, <1>3, <1>8
    <2>3. Min(able) \in Nat /\ Min(able) >= 1 /\ Min(able) <= 1
        BY <1>6, <1>14, <2>1, <2>2
    <2> QED
        BY <2>2, <2>3
<1> HIDE DEF able
<1>9. \/ choice.error \in {"no server configured", "unsupported operation"} /\ choice.backend = "none"
      \/ web /\ choice = Rung("tsmorph", "")
      \/ server # "" /\ choice = Rung("lsp", server)
    BY <1>1, <1>4, <1>7
<1>10. ASSUME op = "rename", web \/ server # "" PROVE choice = ladder[1] /\ ladder # << >>
    <2>1. ladder # << >>
        BY <1>2, <1>10
    <2> QED
        BY <2>1, <1>1, <1>8, <1>10
<1>11. ASSUME op = "rename", web PROVE choice = Rung("tsmorph", "")
    <2>1. choice = ladder[1]
        BY <1>10, <1>11
    <2> QED
        BY <2>1, <1>2, <1>11
<1>12. ASSUME op = "rename", web \/ server # "" PROVE choice.error = "none"
    <2>1. choice = ladder[1]
        BY <1>10, <1>12
    <2>2. ladder[1] = Rung("tsmorph", "") \/ ladder[1] = Rung("lsp", server)
        BY <1>2, <1>12
    <2> QED
        BY <2>1, <2>2, <1>5
<1> QED
    BY <1>9, <1>11, <1>12 DEF server, web, choice

\* An adapter that doctor has found is one the ladder finds, whatever is configured.
LEMMA AdapterMeans ==
    ASSUME NEW ws, NEW explicit, ProbeAdapter(ws) = "ok"
    PROVE  AvailableAt(explicit, ws)
<1>1. PICK p \in {"global", "repository"} : "node" \in ws.path /\ Usable(ws, p)
    BY DEF ProbeAdapter
<1> DEFINE open == {k \in DOMAIN Places : Usable(ws, Places[k]) /\ (Places[k] = "explicit" => explicit)}
<1>2. DOMAIN Places = 1 .. 4
    BY DEF Places
<1>9. /\ Places[1] = "explicit" /\ Places[2] = "workspace"
       /\ Places[3] = "global" /\ Places[4] = "repository"
    BY DEF Places
<1>3. 3 \in open \/ 4 \in open
    <2>1. 3 \in DOMAIN Places /\ 4 \in DOMAIN Places
        BY <1>2
    <2> HIDE DEF Places
    <2> QED
        BY <1>1, <1>9, <2>1
<1>4. open \in SUBSET Nat
    BY <1>2
<1>5. ResolveAdapter(explicit, ws) = Places[Min(open)]
    BY <1>3 DEF ResolveAdapter
<1>6. Min(open) \in open
    <2> HIDE DEF open
    <2> QED
        BY <1>3, <1>4, FirstMeans
<1>7. Places[Min(open)] # "none"
    <2>1. Min(open) \in 1 .. 4
        BY <1>2, <1>6
    <2>2. \A k \in 1 .. 4 : k = 1 \/ k = 2 \/ k = 3 \/ k = 4
        OBVIOUS
    <2> QED
        BY <1>9, <2>1, <2>2
<1> QED
    BY <1>1, <1>5, <1>7 DEF AvailableAt

\* What doctor says of a language, beside the two ways to a backend for it.
Agrees(layers, g, ws, op) ==
    LET doctor == ProbeServer(layers, g, ws)
        tier1 == BuildTier1(layers, g, ws)
        tier2 == BuildBackend(layers, g, ws, op)
    IN /\ doctor = "not-claimed" <=> tier2.error = "unsupported language"
       /\ doctor = "not-claimed" <=> tier1.error = "unsupported language"
       /\ doctor = "missing" <=> tier1.error = "server missing"
       /\ (doctor \notin {"missing", "not-claimed"} /\ op = "rename") => tier2.error = "none"
       /\ (ProbeAdapter(ws) = "ok" /\ g \in Web /\ op = "rename") => tier2 = Rung("tsmorph", "")

\* What doctor says of a language with a row agrees with what the two ways to a
\* backend then do: they look for the same server.
LEMMA DoctorMeans ==
    ASSUME NEW layers, NEW g \in DOMAIN SupportMatrix, NEW ws, NEW op, ~Load(layers).broken,
           \A l \in DOMAIN Load(layers).servers : Load(layers).servers[l] # ""
    PROVE  Agrees(layers, g, ws, op)
<1> DEFINE cfg == Load(layers)
           server == Server(cfg, g)
           resolved == ResolvedServer(cfg, g, ws)
           web == LocalAdapter(cfg, g, ws)
           choice == SelectForOperation(cfg, g, ws, op)
           doctor == ProbeServer(layers, g, ws)
           tier1 == BuildTier1(layers, g, ws)
           tier2 == BuildBackend(layers, g, ws, op)
<1>0. ~cfg.broken /\ \A l \in DOMAIN cfg.servers : cfg.servers[l] # ""
    OBVIOUS
<1> HIDE DEF cfg
<1>1. tier2 = IF choice.backend = "lsp" /\ choice.server \notin ws.path \cup {"local"}
              THEN Refused("server missing") ELSE choice
    BY <1>0 DEF BuildBackend, cfg
<1>2. tier1 = IF Unsupported(g) THEN Refused("unsupported language")
              ELSE IF server = "" THEN Refused("no server configured")
              ELSE IF server \notin ws.path THEN Refused("server missing")
              ELSE Rung("lsp", server)
    BY <1>0 DEF BuildTier1, cfg
<1>3. /\ g \in DOMAIN Builtin
      /\ SupportMatrix[g].level \in {"supported", "experimental", "planned", "unsupported"}
      /\ ~Unsupported(g) => /\ SupportMatrix[g].server = Builtin[g]
                            /\ Builtin[g] # "" /\ Builtin[g] # "local"
    BY MatrixMeans
<1>4. ~Unsupported(g) =>
         /\ server # ""
         /\ doctor = IF server \notin ws.path THEN "missing" ELSE PresentStatus(SupportMatrix[g].level)
    <2>1. CASE g \in DOMAIN cfg.servers
        BY <1>0, <1>3, <2>1 DEF ProbeServer, Server, cfg
    <2>2. CASE g \notin DOMAIN cfg.servers
        BY <1>0, <1>3, <2>2 DEF ProbeServer, Server, cfg
    <2> QED
        BY <2>1, <2>2
<1>5. Unsupported(g) => doctor = "not-claimed"
    BY DEF ProbeServer
<1>6. PresentStatus(SupportMatrix[g].level) \notin {"missing", "not-claimed"}
    BY <1>3 DEF PresentStatus
<1>7. \A why : Refused(why).error = why /\ Refused(why).backend = "none"
    BY DEF Refused
<1>8. \A b, v : Rung(b, v).error = "none" /\ Rung(b, v).backend = b /\ Rung(b, v).server = v
    BY DEF Rung
<1>9. resolved \in {server, "local"}
    BY DEF ResolvedServer
<1>10. Unsupported(g) => choice = Refused("unsupported language")
    BY DEF SelectForOperation
<1>11. ~Unsupported(g) =>
          /\ \/ choice.error \in {"no server configured", "unsupported operation"} /\ choice.backend = "none"
             \/ web /\ choice = Rung("tsmorph", "")
             \/ resolved # "" /\ choice = Rung("lsp", resolved)
          /\ (op = "rename" /\ (web \/ resolved # "")) => choice.error = "none"
          /\ (op = "rename" /\ web) => choice = Rung("tsmorph", "")
    BY ChoiceMeans
<1>12. (ProbeAdapter(ws) = "ok" /\ g \in Web) => web
    BY AdapterMeans DEF LocalAdapter
<1>13. g \in Web => ~Unsupported(g)
    <2>1. /\ SupportMatrix["typescript"].level # "unsupported"
          /\ SupportMatrix["javascript"].level # "unsupported"
        BY DEF SupportMatrix, Row
    <2> QED
        BY <2>1 DEF Unsupported, Web
<1> HIDE DEF server, resolved, web, choice, doctor, tier1, tier2
<1>14. doctor = "not-claimed" <=> tier2.error = "unsupported language"
    <2>1. CASE Unsupported(g)
        BY <1>1, <1>5, <1>7, <1>10, <2>1
    <2>2. CASE ~Unsupported(g)
        <3>1. doctor # "not-claimed"
            BY <1>4, <1>6, <2>2
        <3>2. choice.error # "unsupported language"
            BY <1>8, <1>11, <2>2
        <3> QED
            BY <1>1, <1>7, <3>1, <3>2
    <2> QED
        BY <2>1, <2>2
<1>15. doctor = "not-claimed" <=> tier1.error = "unsupported language"
    BY <1>2, <1>4, <1>5, <1>6, <1>7, <1>8
<1>16. doctor = "missing" <=> tier1.error = "server missing"
    BY <1>2, <1>4, <1>5, <1>6, <1>7, <1>8
<1>17. ASSUME doctor \notin {"missing", "not-claimed"}, op = "rename" PROVE tier2.error = "none"
    <2>1. ~Unsupported(g)
        BY <1>5, <1>17
    <2>2. server # "" /\ server \in ws.path
        BY <1>4, <1>17, <2>1
    <2>3. resolved # "" /\ resolved \in ws.path \cup {"local"}
        BY <1>9, <2>2
    <2>4. choice.error = "none"
        BY <1>11, <1>17, <2>1, <2>3
    <2>5. choice = Rung("tsmorph", "") \/ choice = Rung("lsp", resolved)
        BY <1>11, <2>1, <2>4
    <2>6. ~(choice.backend = "lsp" /\ choice.server \notin ws.path \cup {"local"})
        <3>1. CASE choice = Rung("tsmorph", "")
            BY <1>8, <3>1
        <3>2. CASE choice = Rung("lsp", resolved)
            <4>1. choice.server = resolved
                BY <1>8, <3>2
            <4> QED
                BY <2>3, <4>1
        <3> QED
            BY <2>5, <3>1, <3>2
    <2> QED
        BY <1>1, <2>4, <2>6
<1>18. ASSUME ProbeAdapter(ws) = "ok", g \in Web, op = "rename" PROVE tier2 = Rung("tsmorph", "")
    <2>1. choice = Rung("tsmorph", "")
        BY <1>11, <1>12, <1>13, <1>18
    <2> QED
        BY <1>1, <1>8, <2>1
<1> QED
    BY <1>14, <1>15, <1>16, <1>17, <1>18 DEF Agrees, doctor, tier1, tier2

(* --------------------------------- sorting ------------------------------- *)

\* R orders S strictly and totally.
Orders(R, S) ==
    /\ \A i \in S : <<i, i>> \notin R
    /\ \A i, j, k \in S : <<i, j>> \in R /\ <<j, k>> \in R => <<i, k>> \in R
    /\ \A i, j \in S : i # j => <<i, j>> \in R \/ <<j, i>> \in R
\* The members of S before i.
Below(R, S, i) == {h \in S : <<h, i>> \in R}

\* Of a finite set with an order, every place is that of exactly one member.
LEMMA Ranks ==
    ASSUME NEW S, IsFiniteSet(S), NEW R, Orders(R, S)
    PROVE  /\ \A i \in S : Cardinality(Below(R, S, i)) \in 0 .. Cardinality(S) - 1
           /\ \A i, j \in S : <<i, j>> \in R => Cardinality(Below(R, S, i)) < Cardinality(Below(R, S, j))
           /\ \A i, j \in S : Cardinality(Below(R, S, i)) = Cardinality(Below(R, S, j)) => i = j
           /\ \A m \in 0 .. Cardinality(S) - 1 : \E i \in S : Cardinality(Below(R, S, i)) = m
<1> DEFINE n == Cardinality(S)
           rank(i) == Cardinality(Below(R, S, i))
<1>0. n \in Nat
    BY FS_CardinalityType
<1>1. ASSUME NEW i \in S
      PROVE  IsFiniteSet(Below(R, S, i)) /\ rank(i) \in Nat
    <2>1. Below(R, S, i) \in SUBSET S
        BY DEF Below
    <2>2. IsFiniteSet(Below(R, S, i))
        BY <2>1, FS_Subset
    <2> QED
        BY <2>2, FS_CardinalityType
<1>2. ASSUME NEW i \in S
      PROVE  rank(i) \in 0 .. n - 1
    <2>1. Below(R, S, i) \in SUBSET (S \ {i})
        BY DEF Below, Orders
    <2>2. IsFiniteSet(S \ {i}) /\ Cardinality(S \ {i}) = n - 1
        BY FS_RemoveElement
    <2>3. rank(i) <= n - 1
        BY <2>1, <2>2, FS_Subset
    <2> QED
        BY <1>0, <1>1, <2>3
<1>3. ASSUME NEW i \in S, NEW j \in S, <<i, j>> \in R
      PROVE  rank(i) < rank(j)
    <2>1. Below(R, S, i) \in SUBSET Below(R, S, j)
        BY <1>3 DEF Below, Orders
    <2>2. i \in Below(R, S, j) /\ i \notin Below(R, S, i)
        BY <1>3 DEF Below, Orders
    <2>3. rank(i) <= rank(j) /\ (rank(i) = rank(j) => Below(R, S, i) = Below(R, S, j))
        BY <1>1, <2>1, FS_Subset
    <2>4. rank(i) # rank(j)
        BY <2>2, <2>3
    <2> QED
        BY <1>1, <2>3, <2>4
<1>4. ASSUME NEW i \in S, NEW j \in S, rank(i) = rank(j)
      PROVE  i = j
    <2> SUFFICES ASSUME i # j PROVE FALSE
        OBVIOUS
    <2>1. <<i, j>> \in R \/ <<j, i>> \in R
        BY DEF Orders
    <2>2. rank(i) < rank(j) \/ rank(j) < rank(i)
        BY <1>3, <2>1
    <2> QED
        BY <1>1, <1>4, <2>2
<1>5. ASSUME NEW m \in 0 .. n - 1
      PROVE  \E i \in S : rank(i) = m
    <2> DEFINE f == [i \in S |-> rank(i)]
               T == 0 .. n - 1
    <2>1. f \in Injection(S, T)
        <3>1. f \in [S -> T]
            BY <1>2
        <3>2. \A i, j \in S : f[i] = f[j] => i = j
            BY <1>4
        <3> HIDE DEF f, T
        <3> QED
            BY <3>1, <3>2 DEF Injection, IsInjective
    <2>2. IsFiniteSet(T) /\ Cardinality(T) = n
        <3>1. 0 \in Int /\ n - 1 \in Int
            BY <1>0
        <3>2. IsFiniteSet(T) /\ Cardinality(T) = IF 0 > n - 1 THEN 0 ELSE (n - 1) - 0 + 1
            BY <3>1, FS_Interval
        <3> QED
            BY <1>0, <3>2
    <2> HIDE DEF f, T, rank, n
    <2>3. f \in Surjection(S, T)
        BY <2>1, <2>2, FS_Injection DEF n
    <2>4. PICK i \in S : f[i] = m
        <3>1. m \in T
            BY DEF T
        <3> QED
            BY <2>3, <3>1 DEF Surjection
    <2> QED
        BY <2>4 DEF f
<1> QED
    BY <1>2, <1>3, <1>4, <1>5

\* How many numbers there are from 1 to n.
LEMMA Upwards ==
    ASSUME NEW n \in Nat
    PROVE  IsFiniteSet(1 .. n) /\ Cardinality(1 .. n) = n
<1>1. IsFiniteSet(1 .. n) /\ Cardinality(1 .. n) = IF 1 > n THEN 0 ELSE n - 1 + 1
    BY FS_Interval
<1> QED
    BY <1>1

\* p lists 1 .. n in the order R.
Lists(p, R, n) ==
    /\ p \in [1 .. n -> 1 .. n]
    /\ \A i \in 1 .. n : \E m \in 1 .. n : p[m] = i
    /\ \A m, h \in 1 .. n : m < h => <<p[m], p[h]>> \in R

\* Taking the numbers by their rank lists them in order.
LEMMA RanksList ==
    ASSUME NEW n \in Nat, NEW R, Orders(R, 1 .. n), NEW p \in [1 .. n -> 1 .. n],
           \A m \in 1 .. n : Cardinality(Below(R, 1 .. n, p[m])) = m - 1
    PROVE  Lists(p, R, n)
<1> DEFINE S == 1 .. n
           rank(i) == Cardinality(Below(R, S, i))
<1>0. \A r \in 0 .. n - 1 : r + 1 \in S /\ (r + 1) - 1 = r
    OBVIOUS
<1>1. IsFiniteSet(S) /\ Cardinality(S) = n
    BY Upwards
<1>2. /\ \A i \in S : rank(i) \in 0 .. n - 1
      /\ \A i, j \in S : <<i, j>> \in R => rank(i) < rank(j)
      /\ \A i, j \in S : rank(i) = rank(j) => i = j
    <2>1. IsFiniteSet(S) /\ Orders(R, S)
        BY <1>1
    <2> HIDE DEF S
    <2> QED
        BY <1>1, <2>1, Ranks
<1> HIDE DEF rank
<1>4. \A m \in S : m - 1 \in 0 .. n - 1
    OBVIOUS
<1>5. ASSUME NEW m \in S
      PROVE  p[m] \in S /\ rank(p[m]) = m - 1
    BY DEF rank
<1>7. ASSUME NEW i \in S
      PROVE  \E m \in S : p[m] = i
    <2>1. PICK r \in 0 .. n - 1 : r = rank(i)
        BY <1>2
    <2>2. r + 1 \in S /\ (r + 1) - 1 = r
        BY <1>0, <2>1
    <2>3. rank(p[r + 1]) = r /\ p[r + 1] \in S
        BY <1>5, <2>2
    <2> QED
        BY <1>2, <2>1, <2>2, <2>3
<1>8. ASSUME NEW m \in S, NEW h \in S, m < h
      PROVE  <<p[m], p[h]>> \in R
    <2>1. p[m] \in S /\ p[h] \in S /\ rank(p[m]) = m - 1 /\ rank(p[h]) = h - 1
        BY <1>5
    <2>2. p[m] # p[h] /\ ~(rank(p[h]) < rank(p[m]))
        BY <1>8, <2>1
    <2>3. <<p[m], p[h]>> \in R \/ <<p[h], p[m]>> \in R
        BY <2>1, <2>2 DEF Orders
    <2> QED
        BY <1>2, <2>1, <2>2, <2>3
<1> QED
    BY <1>7, <1>8 DEF Lists

\* Two lists of the same numbers in the same order are the same.
LEMMA ListsOnce ==
    ASSUME NEW n \in Nat, NEW R, Orders(R, 1 .. n), NEW p, NEW q, Lists(p, R, n), Lists(q, R, n)
    PROVE  p = q
<1> DEFINE T == {m \in 1 .. n : p[m] # q[m]}
<1>1. T = {}
    <2> SUFFICES ASSUME T # {} PROVE FALSE
        OBVIOUS
    <2>1. T \in SUBSET Nat
        OBVIOUS
    <2>2. PICK m \in T : \A k \in T : m <= k
        <3> HIDE DEF T
        <3> QED
            BY <2>1, LeastNat
    <2>3. m \in 1 .. n /\ p[m] # q[m] /\ p[m] \in 1 .. n /\ q[m] \in 1 .. n
        BY <2>2 DEF Lists
    <2>4. \A k \in 1 .. n : k < m => p[k] = q[k]
        BY <2>2, <2>3
    <2>5. PICK h \in 1 .. n : q[h] = p[m]
        BY <2>3 DEF Lists
    <2>6. PICK g \in 1 .. n : p[g] = q[m]
        BY <2>3 DEF Lists
    <2>7. \A k \in 1 .. n : \A l \in 1 .. n : k < l => p[k] # p[l] /\ q[k] # q[l]
        BY DEF Lists, Orders
    <2>8. m < h
        <3>1. h # m
            BY <2>3, <2>5
        <3>2. ~(h < m)
            BY <2>3, <2>4, <2>5, <2>7
        <3> QED
            BY <2>3, <3>1, <3>2
    <2>9. m < g
        <3>1. g # m
            BY <2>3, <2>6
        <3>2. ~(g < m)
            BY <2>3, <2>4, <2>6, <2>7
        <3> QED
            BY <2>3, <3>1, <3>2
    <2>10. <<q[m], p[m]>> \in R
        BY <2>3, <2>5, <2>8 DEF Lists
    <2>11. <<p[m], q[m]>> \in R
        BY <2>3, <2>6, <2>9 DEF Lists
    <2> QED
        BY <2>3, <2>10, <2>11 DEF Orders
<1>2. p = [m \in 1 .. n |-> p[m]] /\ q = [m \in 1 .. n |-> q[m]]
    BY DEF Lists
<1>3. \A m \in 1 .. n : p[m] = q[m]
    BY <1>1
<1> QED
    BY <1>2, <1>3

(* The edits of a list and the orders of applyEdits and orderedFileEdits on them. *)
Edits == [start : Place, end : Place, newText : Seq(STRING)]
LaterFirstIn(list) ==
    {ih \in (1 .. Len(list)) \X (1 .. Len(list)) : LaterFirst(Indexed(list)[ih[1]], Indexed(list)[ih[2]])}
TextEditLessIn(list) ==
    {ih \in (1 .. Len(list)) \X (1 .. Len(list)) : TextEditLess(Indexed(list)[ih[1]], Indexed(list)[ih[2]])}

\* Positions are ordered.
LEMMA PlaceOrder ==
    /\ \A a \in Place : ~PositionLess(a, a)
    /\ \A a, b, c \in Place : PositionLess(a, b) /\ PositionLess(b, c) => PositionLess(a, c)
    /\ \A a, b \in Place : a = b \/ PositionLess(a, b) \/ PositionLess(b, a)
<1>1. ASSUME NEW a \in Place, NEW b \in Place
      PROVE  /\ a.line \in Int /\ a.char \in Int
             /\ (a.line = b.line /\ a.char = b.char) => a = b
    BY DEF Place
<1> QED
    BY <1>1 DEF PositionLess

\* The edit and the place in the array of each member.
LEMMA IndexedMeans ==
    ASSUME NEW list \in Seq(Edits), NEW i \in 1 .. Len(list)
    PROVE  /\ Indexed(list)[i].edit = list[i] /\ Indexed(list)[i].orig = i
           /\ list[i] \in Edits /\ list[i].start \in Place /\ list[i].end \in Place
           /\ list[i].newText \in Seq(STRING)
           /\ DOMAIN Indexed(list) = 1 .. Len(list)
<1>1. DOMAIN list = 1 .. Len(list) /\ list[i] \in Edits
    OBVIOUS
<1>2. Indexed(list) = [m \in 1 .. Len(list) |-> [edit |-> list[m], orig |-> m]]
    BY <1>1 DEF Indexed
<1> QED
    BY <1>1, <1>2 DEF Edits

\* Both comparisons order the edits of a list.
LEMMA EditOrders ==
    ASSUME NEW list \in Seq(Edits)
    PROVE  Orders(LaterFirstIn(list), 1 .. Len(list)) /\ Orders(TextEditLessIn(list), 1 .. Len(list))
<1> DEFINE S == 1 .. Len(list)
           x == Indexed(list)
<1>0. Len(list) \in Nat
    OBVIOUS
<1>1. \A i \in S : /\ x[i].edit.start \in Place /\ x[i].edit.end \in Place
                   /\ x[i].orig = i /\ i \in Int
    BY IndexedMeans
<1>2. \A i, h \in S : <<i, h>> \in LaterFirstIn(list) <=> LaterFirst(x[i], x[h])
    BY DEF LaterFirstIn
<1>3. \A i, h \in S : <<i, h>> \in TextEditLessIn(list) <=> TextEditLess(x[i], x[h])
    BY DEF TextEditLessIn
<1> HIDE DEF x
<1>4. Orders(LaterFirstIn(list), S)
    <2>1. \A i \in S : <<i, i>> \notin LaterFirstIn(list)
        BY <1>1, <1>2, PlaceOrder DEF LaterFirst
    <2>2. \A i, h \in S : i # h => <<i, h>> \in LaterFirstIn(list) \/ <<h, i>> \in LaterFirstIn(list)
        BY <1>1, <1>2, PlaceOrder DEF LaterFirst
    <2>3. ASSUME NEW i \in S, NEW h \in S, NEW k \in S, LaterFirst(x[i], x[h]), LaterFirst(x[h], x[k])
          PROVE  LaterFirst(x[i], x[k])
        BY <1>1, <2>3, PlaceOrder DEF LaterFirst
    <2> QED
        BY <1>2, <2>1, <2>2, <2>3 DEF Orders
<1>5. Orders(TextEditLessIn(list), S)
    <2>1. \A i \in S : <<i, i>> \notin TextEditLessIn(list)
        BY <1>1, <1>3, PlaceOrder DEF TextEditLess
    <2>2. \A i, h \in S : i # h => <<i, h>> \in TextEditLessIn(list) \/ <<h, i>> \in TextEditLessIn(list)
        BY <1>1, <1>3, PlaceOrder DEF TextEditLess
    <2>3. ASSUME NEW i \in S, NEW h \in S, NEW k \in S, TextEditLess(x[i], x[h]), TextEditLess(x[h], x[k])
          PROVE  TextEditLess(x[i], x[k])
        BY <1>1, <2>3, PlaceOrder DEF TextEditLess
    <2> QED
        BY <1>3, <2>1, <2>2, <2>3 DEF Orders
<1> QED
    BY <1>4, <1>5

\* The sorted list holds every edit once, in the order of the comparison.
LEMMA SortedMeans ==
    ASSUME NEW list \in Seq(Edits)
    PROVE  \E p : /\ Lists(p, LaterFirstIn(list), Len(list))
                  /\ Sorted(list) = [m \in 1 .. Len(list) |-> Indexed(list)[p[m]]]
<1> DEFINE n == Len(list)
           S == 1 .. n
           x == Indexed(list)
           R == LaterFirstIn(list)
           rank(i) == Cardinality({h \in S : LaterFirst(x[h], x[i])})
           p == [m \in S |-> CHOOSE i \in S : rank(i) = m - 1]
<1>0. n \in Nat /\ DOMAIN x = S
    BY DEF Indexed
<1>1. Sorted(list) = [m \in S |-> x[CHOOSE i \in S : rank(i) = m - 1]]
    BY <1>0 DEF Sorted, SortedBy
<1>2. Orders(R, S)
    BY EditOrders
<1>3. \A i \in S : rank(i) = Cardinality(Below(R, S, i))
    <2>1. ASSUME NEW i \in S
          PROVE  {h \in S : LaterFirst(x[h], x[i])} = Below(R, S, i)
        BY DEF Below, LaterFirstIn
    <2> QED
        BY <2>1
<1>4. \A m \in S : \E i \in S : Cardinality(Below(R, S, i)) = m - 1
    <2>1. \A m \in 0 .. n - 1 : \E i \in S : Cardinality(Below(R, S, i)) = m
        <3>1. IsFiniteSet(S) /\ Cardinality(S) = n
            BY <1>0, Upwards
        <3> HIDE DEF S, R
        <3> QED
            BY <1>2, <3>1, Ranks
    <2>2. \A m \in S : m - 1 \in 0 .. n - 1
        BY <1>0
    <2> QED
        BY <2>1, <2>2
<1> HIDE DEF n, x, R, rank
<1>5. ASSUME NEW m \in S
      PROVE  LET i == CHOOSE i \in S : rank(i) = m - 1 IN i \in S /\ rank(i) = m - 1
    <2>1. \E i \in S : rank(i) = m - 1
        BY <1>3, <1>4
    <2> QED
        BY <2>1
<1>6. p \in [S -> S] /\ \A m \in S : p[m] \in S /\ rank(p[m]) = m - 1
    BY <1>5
<1>7. Sorted(list) = [m \in S |-> x[p[m]]]
    BY <1>1
<1> HIDE DEF p
<1>8. \A m \in S : Cardinality(Below(R, S, p[m])) = m - 1
    BY <1>3, <1>6
<1>9. Lists(p, R, n)
    BY <1>0, <1>2, <1>6, <1>8, RanksList
<1> QED
    BY <1>7, <1>9 DEF n, x, R

\* The same of the order in which a dry run lists the edits.
LEMMA OrderedMeans ==
    ASSUME NEW list \in Seq(Edits)
    PROVE  \E p : /\ Lists(p, TextEditLessIn(list), Len(list))
                  /\ Ordered(list) = [m \in 1 .. Len(list) |-> list[p[m]]]
<1> DEFINE n == Len(list)
           S == 1 .. n
           x == Indexed(list)
           R == TextEditLessIn(list)
           rank(i) == Cardinality({h \in S : TextEditLess(x[h], x[i])})
           p == [m \in S |-> CHOOSE i \in S : rank(i) = m - 1]
           s == SortedBy(x, TextEditLess)
<1>0. n \in Nat /\ DOMAIN x = S
    BY DEF Indexed
<1>1. s = [m \in S |-> x[CHOOSE i \in S : rank(i) = m - 1]]
    BY <1>0 DEF SortedBy
<1>2. Orders(R, S)
    BY EditOrders
<1>3. \A i \in S : rank(i) = Cardinality(Below(R, S, i))
    <2>1. ASSUME NEW i \in S
          PROVE  {h \in S : TextEditLess(x[h], x[i])} = Below(R, S, i)
        BY DEF Below, TextEditLessIn
    <2> QED
        BY <2>1
<1>4. \A m \in S : \E i \in S : Cardinality(Below(R, S, i)) = m - 1
    <2>1. \A m \in 0 .. n - 1 : \E i \in S : Cardinality(Below(R, S, i)) = m
        <3>1. IsFiniteSet(S) /\ Cardinality(S) = n
            BY <1>0, Upwards
        <3> HIDE DEF S, R
        <3> QED
            BY <1>2, <3>1, Ranks
    <2>2. \A m \in S : m - 1 \in 0 .. n - 1
        BY <1>0
    <2> QED
        BY <2>1, <2>2
<1>5. Ordered(list) = [m \in DOMAIN s |-> s[m].edit]
    BY DEF Ordered
<1>6. \A i \in S : x[i].edit = list[i]
    BY IndexedMeans
<1> HIDE DEF n, x, R, rank, s
<1>7. ASSUME NEW m \in S
      PROVE  LET i == CHOOSE i \in S : rank(i) = m - 1 IN i \in S /\ rank(i) = m - 1
    <2>1. \E i \in S : rank(i) = m - 1
        BY <1>3, <1>4
    <2> QED
        BY <2>1
<1>8. p \in [S -> S] /\ \A m \in S : p[m] \in S /\ rank(p[m]) = m - 1
    BY <1>7
<1>9. s = [m \in S |-> x[p[m]]]
    BY <1>1
<1> HIDE DEF p
<1>10. \A m \in S : Cardinality(Below(R, S, p[m])) = m - 1
    BY <1>3, <1>8
<1>11. Lists(p, R, n)
    BY <1>0, <1>2, <1>8, <1>10, RanksList
<1>12. Ordered(list) = [m \in S |-> list[p[m]]]
    <2>1. DOMAIN s = S /\ \A m \in S : s[m].edit = list[p[m]]
        BY <1>6, <1>8, <1>9
    <2> QED
        BY <1>5, <2>1
<1> QED
    BY <1>11, <1>12 DEF n, R

(* -------------------------------- columns -------------------------------- *)

\* The ends of the characters of a line, in bytes and in units, are those of
\* the recursion.
LEMMA EndsMean ==
    ASSUME NEW line \in Seq(1 .. 4)
    PROVE  /\ ByteEnds(line) \in [0 .. Len(line) -> Nat] /\ UnitEnds(line) \in [0 .. Len(line) -> Nat]
           /\ ByteEnds(line)[0] = 0 /\ UnitEnds(line)[0] = 0
           /\ \A k \in 1 .. Len(line) :
                 /\ ByteEnds(line)[k] = ByteEnds(line)[k - 1] + line[k]
                 /\ UnitEnds(line)[k] = UnitEnds(line)[k - 1] + Units(line[k])
<1> DEFINE n == Len(line)
           F == [m \in 1 .. n |-> [v \in Nat |-> v + line[m]]]
           G == [m \in 1 .. n |-> [v \in Nat |-> v + Units(line[m])]]
           BodyB(f) == [k \in 0 .. n |-> IF k = 0 THEN 0 ELSE f[k - 1] + line[k]]
           BodyU(f) == [k \in 0 .. n |-> IF k = 0 THEN 0 ELSE f[k - 1] + Units(line[k])]
<1>0. n \in Nat /\ \A k \in 1 .. n : line[k] \in 1 .. 4 /\ Units(line[k]) \in 1 .. 2
    BY DEF Units
<1>1. F \in [1 .. n -> [Nat -> Nat]] /\ G \in [1 .. n -> [Nat -> Nat]]
    BY <1>0
<1>2. \A m \in 1 .. n : \A v \in Nat : F[m][v] = v + line[m] /\ G[m][v] = v + Units(line[m])
    OBVIOUS
<1>3. ByteEnds(line) = CHOOSE f : f = BodyB(f)
    BY DEF ByteEnds
<1>4. UnitEnds(line) = CHOOSE f : f = BodyU(f)
    BY DEF UnitEnds
<1> HIDE DEF n, F, G
<1>5. \E f \in [0 .. n -> Nat] : f = BodyB(f)
    <2>0. 0 \in Nat
        OBVIOUS
    <2>9. PICK f : Solves(f, n, Nat, 0, F)
        BY <1>0, <1>1, <2>0, Recursion
    <2>1. f \in [0 .. n -> Nat] /\ f[0] = 0 /\ \A m \in 1 .. n : f[m] = F[m][f[m - 1]]
        BY <2>9 DEF Solves
    <2>2. \A k \in 0 .. n : f[k] = BodyB(f)[k]
        <3>1. \A k \in 1 .. n : f[k] = f[k - 1] + line[k]
            <4>1. \A k \in 1 .. n : f[k - 1] \in Nat
                BY <1>0, <2>1
            <4> QED
                BY <1>2, <2>1, <4>1
        <3>2. ASSUME NEW k \in 0 .. n, k # 0 PROVE k \in 1 .. n
            BY <1>0, <3>2
        <3> QED
            BY <2>1, <3>1, <3>2
    <2>3. f = [k \in 0 .. n |-> f[k]] /\ BodyB(f) = [k \in 0 .. n |-> BodyB(f)[k]]
        BY <2>1
    <2>4. f = BodyB(f)
        BY <2>2, <2>3
    <2> QED
        BY <2>1, <2>4
<1>6. \E f \in [0 .. n -> Nat] : f = BodyU(f)
    <2>0. 0 \in Nat
        OBVIOUS
    <2>9. PICK f : Solves(f, n, Nat, 0, G)
        BY <1>0, <1>1, <2>0, Recursion
    <2>1. f \in [0 .. n -> Nat] /\ f[0] = 0 /\ \A m \in 1 .. n : f[m] = G[m][f[m - 1]]
        BY <2>9 DEF Solves
    <2>2. \A k \in 0 .. n : f[k] = BodyU(f)[k]
        <3>1. \A k \in 1 .. n : f[k] = f[k - 1] + Units(line[k])
            <4>1. \A k \in 1 .. n : f[k - 1] \in Nat
                BY <1>0, <2>1
            <4> QED
                BY <1>2, <2>1, <4>1
        <3>2. ASSUME NEW k \in 0 .. n, k # 0 PROVE k \in 1 .. n
            BY <1>0, <3>2
        <3> QED
            BY <2>1, <3>1, <3>2
    <2>3. f = [k \in 0 .. n |-> f[k]] /\ BodyU(f) = [k \in 0 .. n |-> BodyU(f)[k]]
        BY <2>1
    <2>4. f = BodyU(f)
        BY <2>2, <2>3
    <2> QED
        BY <2>1, <2>4
<1> DEFINE B == ByteEnds(line)
           U == UnitEnds(line)
<1>7. B = BodyB(B) /\ U = BodyU(U)
    BY <1>3, <1>4, <1>5, <1>6
<1> HIDE DEF B, U
<1>8. /\ B[0] = 0 /\ \A k \in 1 .. n : B[k] = B[k - 1] + line[k]
      /\ U[0] = 0 /\ \A k \in 1 .. n : U[k] = U[k - 1] + Units(line[k])
    BY <1>0, <1>7
<1>9. \A k \in 0 .. n : B[k] \in Nat /\ U[k] \in Nat
    <2> DEFINE T == {k \in Nat : B[k] \in Nat /\ U[k] \in Nat}
    <2>1. 0 \in T
        BY <1>8
    <2>2. ASSUME NEW k \in 0 .. n - 1, k \in T PROVE k + 1 \in T
        <3>1. k + 1 \in 1 .. n /\ (k + 1) - 1 = k
            BY <1>0
        <3>2. B[k + 1] = B[k] + line[k + 1] /\ U[k + 1] = U[k] + Units(line[k + 1])
            BY <1>8, <3>1
        <3>3. B[k] \in Nat /\ U[k] \in Nat
            BY <2>2
        <3>4. line[k + 1] \in Nat /\ Units(line[k + 1]) \in Nat /\ k + 1 \in Nat
            BY <1>0, <3>1
        <3> QED
            BY <3>2, <3>3, <3>4
    <2>3. T \in SUBSET Nat
        OBVIOUS
    <2>4. \A k \in 0 .. n : k \in T
        <3> HIDE DEF T
        <3> QED
            BY <1>0, <2>1, <2>2, <2>3, UpTo
    <2> QED
        BY <2>4
<1>10. B = [k \in 0 .. n |-> B[k]] /\ U = [k \in 0 .. n |-> U[k]]
    BY <1>7
<1>11. B \in [0 .. n -> Nat] /\ U \in [0 .. n -> Nat]
    BY <1>9, <1>10
<1> QED
    BY <1>8, <1>11 DEF n, B, U

\* The ends grow with every character, the units no faster than the bytes.
LEMMA EndsGrow ==
    ASSUME NEW line \in Seq(1 .. 4)
    PROVE  /\ \A k \in 0 .. Len(line) :
                 UnitEnds(line)[k] <= ByteEnds(line)[k] /\ ByteEnds(line)[k] <= Bytes(line)
           /\ \A k, m \in 0 .. Len(line) : k < m => /\ ByteEnds(line)[k] < ByteEnds(line)[m]
                                                   /\ UnitEnds(line)[k] < UnitEnds(line)[m]
<1> DEFINE n == Len(line)
           B == ByteEnds(line)
           U == UnitEnds(line)
<1>0. /\ n \in Nat
      /\ \A k \in 1 .. n : line[k] \in 1 .. 4 /\ Units(line[k]) \in 1 .. 2 /\ Units(line[k]) <= line[k]
    BY DEF Units
<1>1. /\ B \in [0 .. n -> Nat] /\ U \in [0 .. n -> Nat] /\ B[0] = 0 /\ U[0] = 0
      /\ \A k \in 1 .. n : B[k] = B[k - 1] + line[k] /\ U[k] = U[k - 1] + Units(line[k])
    BY EndsMean
<1>2. Bytes(line) = B[n]
    BY DEF Bytes
<1> HIDE DEF n, B, U
<1>3. ASSUME NEW k \in 0 .. n - 1
      PROVE  /\ k \in 0 .. n /\ k + 1 \in 0 .. n /\ k + 1 \in 1 .. n
             /\ B[k] \in Nat /\ U[k] \in Nat /\ B[k + 1] \in Nat /\ U[k + 1] \in Nat
             /\ B[k] < B[k + 1] /\ U[k] < U[k + 1] /\ U[k + 1] - U[k] <= B[k + 1] - B[k]
    <2>1. k \in 0 .. n /\ k + 1 \in 0 .. n /\ k + 1 \in 1 .. n /\ (k + 1) - 1 = k
        BY <1>0
    <2>2. B[k + 1] = B[k] + line[k + 1] /\ U[k + 1] = U[k] + Units(line[k + 1])
        BY <1>1, <2>1
    <2>3. B[k] \in Nat /\ U[k] \in Nat /\ B[k + 1] \in Nat /\ U[k + 1] \in Nat
        BY <1>1, <2>1
    <2>4. line[k + 1] \in 1 .. 4 /\ Units(line[k + 1]) \in 1 .. 2 /\ Units(line[k + 1]) <= line[k + 1]
        BY <1>0, <2>1
    <2>5. B[k] < B[k + 1] /\ B[k + 1] - B[k] = line[k + 1]
        BY <2>2, <2>3, <2>4, SMTT(30)
    <2>6. U[k] < U[k + 1] /\ U[k + 1] - U[k] = Units(line[k + 1])
        BY <2>2, <2>3, <2>4
    <2> QED
        BY <2>1, <2>3, <2>4, <2>5, <2>6
<1>4. \A m \in 0 .. n : U[m] <= B[m] /\ \A k \in 0 .. n : k < m => B[k] < B[m] /\ U[k] < U[m]
    <2> DEFINE T == {m \in Nat : /\ U[m] <= B[m]
                                /\ \A k \in 0 .. n : k < m => B[k] < B[m] /\ U[k] < U[m]}
    <2>1. 0 \in T
        BY <1>1
    <2>2. ASSUME NEW m \in 0 .. n - 1, m \in T PROVE m + 1 \in T
        <3>1. m + 1 \in Nat /\ m \in Nat
            BY <1>0
        <3>2. U[m + 1] <= B[m + 1]
            BY <1>3, <2>2
        <3>3. ASSUME NEW k \in 0 .. n, k < m + 1 PROVE B[k] < B[m + 1] /\ U[k] < U[m + 1]
            <4>1. B[k] \in Nat /\ U[k] \in Nat
                BY <1>1
            <4>2. k = m \/ k < m
                BY <1>0, <3>3
            <4>3. B[k] <= B[m] /\ U[k] <= U[m]
                BY <1>3, <2>2, <4>1, <4>2
            <4> QED
                BY <1>3, <4>1, <4>3, SMTT(30)
        <3> QED
            BY <3>1, <3>2, <3>3
    <2>3. T \in SUBSET Nat
        OBVIOUS
    <2>4. \A m \in 0 .. n : m \in T
        <3> HIDE DEF T
        <3> QED
            BY <1>0, <2>1, <2>2, <2>3, UpTo
    <2> QED
        BY <2>4
<1>5. \A k \in 0 .. n : B[k] <= B[n]
    <2>1. ASSUME NEW k \in 0 .. n PROVE B[k] <= B[n]
        <3>1. n \in 0 .. n /\ (k = n \/ k < n) /\ B[k] \in Nat /\ B[n] \in Nat
            BY <1>0, <1>1
        <3> QED
            BY <1>4, <3>1
    <2> QED
        BY <2>1
<1> QED
    BY <1>2, <1>4, <1>5 DEF n, B, U

\* Of a line of valid characters the two conversions are inverse to each other
\* where a character ends, and fail elsewhere.
LEMMA ColumnsMean ==
    ASSUME NEW line \in Seq(1 .. 4)
    PROVE  LET valid == {ByteEnds(line)[k] + 1 : k \in 0 .. Len(line)}
               units == {UnitEnds(line)[k] : k \in 0 .. Len(line)}
               columns == -1 .. Bytes(line) + 2
           IN /\ \A b \in columns :
                    IF b \in valid
                    THEN ToCharacter(line, b) \in columns /\ ToByteColumn(line, ToCharacter(line, b)) = b
                    ELSE ToCharacter(line, b) = -1
              /\ \A c \in columns :
                    IF c \in units
                    THEN ToByteColumn(line, c) \in columns /\ ToCharacter(line, ToByteColumn(line, c)) = c
                    ELSE ToByteColumn(line, c) = -1
<1> DEFINE n == Len(line)
           B == ByteEnds(line)
           U == UnitEnds(line)
           W == Bytes(line)
           columns == -1 .. W + 2
<1>1. /\ n \in Nat /\ B \in [0 .. n -> Nat] /\ U \in [0 .. n -> Nat] /\ B[0] = 0 /\ U[0] = 0
      /\ \A k \in 0 .. n : U[k] <= B[k] /\ B[k] <= W
      /\ \A k, m \in 0 .. n : k < m => B[k] < B[m] /\ U[k] < U[m]
    BY EndsMean, EndsGrow
<1>2. W \in Nat
    <2>1. n \in 0 .. n /\ W = B[n]
        BY <1>1 DEF Bytes
    <2> HIDE DEF W, B, n
    <2> QED
        BY <1>1, <2>1
<1>3. \A b : ToCharacter(line, b) =
                LET ends == {k \in 0 .. n : B[k] = b - 1}
                IN IF b \notin 1 .. W + 1 \/ ends = {} THEN -1 ELSE U[Least(ends)]
    BY DEF ToCharacter
<1>4. \A c : ToByteColumn(line, c) =
                LET reached == {k \in 0 .. n : U[k] >= c}
                IN IF c < 0 \/ reached = {} THEN -1
                   ELSE IF U[Least(reached)] > c THEN -1 ELSE B[Least(reached)] + 1
    BY DEF ToByteColumn
<1> HIDE DEF n, B, U, W
<1>5. \A k \in 0 .. n : B[k] \in Nat /\ U[k] \in Nat
    BY <1>1
<1>6. ASSUME NEW k \in 0 .. n
      PROVE  /\ ToCharacter(line, B[k] + 1) = U[k] /\ U[k] \in columns
             /\ ToByteColumn(line, U[k]) = B[k] + 1 /\ B[k] + 1 \in columns
    <2> DEFINE ends == {m \in 0 .. n : B[m] = (B[k] + 1) - 1}
               reached == {m \in 0 .. n : U[m] >= U[k]}
    <2>1. k \in ends /\ \A m \in ends : m = k
        <3>1. k \in ends
            BY <1>5
        <3>2. ASSUME NEW m \in 0 .. n, B[m] = (B[k] + 1) - 1 PROVE m = k
            <4>1. B[m] = B[k]
                BY <1>5, <3>2
            <4>2. ~(m < k) /\ ~(k < m)
                BY <1>1, <1>5, <4>1
            <4> QED
                BY <4>2
        <3> QED
            BY <3>1, <3>2
    <2>2. Least(ends) = k
        <3>1. ends \in SUBSET Nat /\ ends # {}
            BY <2>1
        <3> HIDE DEF ends
        <3>2. Least(ends) \in ends
            BY <3>1, FirstMeans
        <3> QED
            BY <2>1, <3>2
    <2>3. k \in reached /\ \A m \in reached : ~(m < k)
        <3>1. k \in reached
            BY <1>5
        <3>2. ASSUME NEW m \in 0 .. n, U[m] >= U[k], m < k PROVE FALSE
            BY <1>1, <1>5, <3>2
        <3> QED
            BY <3>1, <3>2
    <2>4. Least(reached) = k
        <3>1. reached \in SUBSET Nat /\ reached # {}
            BY <2>3
        <3>2. \A m \in reached : m \in Nat
            OBVIOUS
        <3> HIDE DEF reached
        <3>3. Least(reached) \in reached /\ Least(reached) <= k
            BY <2>3, <3>1, FirstMeans
        <3>4. k \in Int
            BY <1>1
        <3>5. Least(reached) \in Nat
            BY <3>2, <3>3
        <3>6. ~(Least(reached) < k)
            BY <2>3, <3>3
        <3> QED
            BY <3>3, <3>4, <3>5, <3>6
    <2>5. B[k] \in Nat /\ U[k] \in Nat /\ U[k] <= B[k] /\ B[k] <= W
        BY <1>1, <1>5
    <2>6. B[k] + 1 \in 1 .. W + 1 /\ ~(U[k] < 0) /\ ~(U[k] > U[k])
        BY <1>2, <2>5
    <2>7. U[k] \in columns /\ B[k] + 1 \in columns
        BY <1>2, <2>5
    <2>8. ToCharacter(line, B[k] + 1) = U[k]
        BY <1>3, <2>1, <2>2, <2>6
    <2>9. ToByteColumn(line, U[k]) = B[k] + 1
        BY <1>4, <2>3, <2>4, <2>6
    <2> QED
        BY <2>7, <2>8, <2>9
<1>7. ASSUME NEW b \in columns, \A k \in 0 .. n : b # B[k] + 1
      PROVE  ToCharacter(line, b) = -1
    <2>1. {k \in 0 .. n : B[k] = b - 1} = {}
        BY <1>2, <1>5, <1>7
    <2> QED
        BY <1>3, <2>1
<1>8. ASSUME NEW c \in columns, \A k \in 0 .. n : c # U[k]
      PROVE  ToByteColumn(line, c) = -1
    <2> DEFINE reached == {k \in 0 .. n : U[k] >= c}
    <2>1. CASE reached = {}
        BY <1>4, <2>1
    <2>2. CASE reached # {}
        <3>1. reached \in SUBSET Nat
            OBVIOUS
        <3>2. Least(reached) \in reached
            <4> HIDE DEF reached
            <4> QED
                BY <2>2, <3>1, FirstMeans
        <3>3. Least(reached) \in 0 .. n /\ U[Least(reached)] >= c
            BY <3>2
        <3>4. U[Least(reached)] > c
            <4>1. U[Least(reached)] # c /\ U[Least(reached)] \in Nat /\ c \in Int
                BY <1>2, <1>5, <1>8, <3>3
            <4> QED
                BY <3>3, <4>1
        <3> QED
            BY <1>4, <2>2, <3>4
    <2> QED
        BY <2>1, <2>2
<1>9. ASSUME NEW b \in columns
      PROVE  IF b \in {B[k] + 1 : k \in 0 .. n}
             THEN ToCharacter(line, b) \in columns /\ ToByteColumn(line, ToCharacter(line, b)) = b
             ELSE ToCharacter(line, b) = -1
    <2>1. CASE b \in {B[k] + 1 : k \in 0 .. n}
        <3>1. PICK k \in 0 .. n : b = B[k] + 1
            BY <2>1
        <3> QED
            BY <1>6, <2>1, <3>1
    <2>2. CASE b \notin {B[k] + 1 : k \in 0 .. n}
        BY <1>7, <2>2
    <2> QED
        BY <2>1, <2>2
<1>10. ASSUME NEW c \in columns
       PROVE  IF c \in {U[k] : k \in 0 .. n}
              THEN ToByteColumn(line, c) \in columns /\ ToCharacter(line, ToByteColumn(line, c)) = c
              ELSE ToByteColumn(line, c) = -1
    <2>1. CASE c \in {U[k] : k \in 0 .. n}
        <3>1. PICK k \in 0 .. n : c = U[k]
            BY <2>1
        <3> QED
            BY <1>6, <2>1, <3>1
    <2>2. CASE c \notin {U[k] : k \in 0 .. n}
        BY <1>8, <2>2
    <2> QED
        BY <2>1, <2>2
<1> QED
    BY <1>9, <1>10 DEF n, B, U, W

(* ------------------------------- positions ------------------------------- *)

\* The newlines up to the offset o, and where its line starts.
Breaks(t, o) == {x \in 1 .. o : t[x] = Newline}
StartOf(t, o) == Max(Breaks(t, o) \cup {0})

\* The greatest of finitely many natural numbers.
LEMMA GreatestNat ==
    ASSUME NEW n \in Nat, NEW S \in SUBSET (0 .. n), S # {}
    PROVE  Max(S) \in S /\ \A x \in S : x <= Max(S)
<1> DEFINE T == {n - x : x \in S}
<1>0. \A x \in S : x \in Nat /\ n - x \in Nat
    OBVIOUS
<1>1. T \in SUBSET Nat /\ T # {}
    BY <1>0
<1> HIDE DEF T
<1>2. PICK d \in T : \A e \in T : d <= e
    BY <1>1, LeastNat
<1>3. PICK m \in S : d = n - m
    BY <1>2 DEF T
<1>4. \A x \in S : n - x \in T
    BY DEF T
<1>5. \A x \in S : x \in Int /\ m >= x
    BY <1>2, <1>3, <1>4
<1> QED
    BY <1>3, <1>5 DEF Max

\* What is known of the line of an offset.
LEMMA StartMeans ==
    ASSUME NEW t, NEW o \in Nat
    PROVE  /\ StartOf(t, o) \in 0 .. o
           /\ StartOf(t, o) = 0 \/ StartOf(t, o) \in Breaks(t, o)
           /\ \A x \in Breaks(t, o) : x <= StartOf(t, o)
           /\ IsFiniteSet(Breaks(t, o)) /\ Cardinality(Breaks(t, o)) \in Nat
           /\ PositionOf(t, o) = [line |-> Cardinality(Breaks(t, o)), char |-> o - StartOf(t, o)]
           /\ PositionOf(t, o) \in Place
<1> DEFINE B == Breaks(t, o)
<1>1. B \in SUBSET (1 .. o)
    BY DEF Breaks
<1>2. IsFiniteSet(B)
    <2>1. IsFiniteSet(1 .. o)
        BY Upwards
    <2> HIDE DEF B
    <2> QED
        BY <1>1, <2>1, FS_Subset
<1>3. Cardinality(B) \in Nat
    BY <1>2, FS_CardinalityType
<1>4. PositionOf(t, o) = [line |-> Cardinality(B), char |-> o - StartOf(t, o)]
    BY DEF PositionOf, StartOf, Breaks
<1> HIDE DEF B
<1>5. StartOf(t, o) \in B \cup {0} /\ \A x \in B \cup {0} : x <= StartOf(t, o)
    <2>1. B \cup {0} \in SUBSET (0 .. o) /\ B \cup {0} # {}
        BY <1>1
    <2>2. StartOf(t, o) = Max(B \cup {0})
        BY DEF StartOf, B
    <2> QED
        BY <2>1, <2>2, GreatestNat
<1>6. StartOf(t, o) \in 0 .. o
    <2>1. \A x \in B \cup {0} : x \in 0 .. o
        BY <1>1
    <2> QED
        BY <1>5, <2>1
<1>7. PositionOf(t, o) \in Place
    BY <1>3, <1>4, <1>6 DEF Place
<1> QED
    BY <1>2, <1>3, <1>4, <1>5, <1>6, <1>7 DEF B

\* A later offset has a later position.
LEMMA PositionsGrow ==
    ASSUME NEW t, NEW o \in Nat, NEW u \in Nat, o < u
    PROVE  PositionLess(PositionOf(t, o), PositionOf(t, u))
<1>1. /\ StartOf(t, o) \in 0 .. o /\ IsFiniteSet(Breaks(t, o)) /\ Cardinality(Breaks(t, o)) \in Nat
      /\ PositionOf(t, o) = [line |-> Cardinality(Breaks(t, o)), char |-> o - StartOf(t, o)]
    BY StartMeans
<1>2. /\ StartOf(t, u) \in 0 .. u /\ IsFiniteSet(Breaks(t, u)) /\ Cardinality(Breaks(t, u)) \in Nat
      /\ PositionOf(t, u) = [line |-> Cardinality(Breaks(t, u)), char |-> u - StartOf(t, u)]
    BY StartMeans
<1>3. Breaks(t, o) \in SUBSET Breaks(t, u)
    BY DEF Breaks
<1>4. /\ Cardinality(Breaks(t, o)) <= Cardinality(Breaks(t, u))
      /\ Cardinality(Breaks(t, u)) = Cardinality(Breaks(t, o)) => Breaks(t, u) = Breaks(t, o)
    BY <1>2, <1>3, FS_Subset
<1>5. Breaks(t, u) = Breaks(t, o) => StartOf(t, u) = StartOf(t, o)
    BY DEF StartOf
<1> QED
    BY <1>1, <1>2, <1>4, <1>5 DEF PositionLess

\* Positions of one text tell offsets apart and keep their order.
LEMMA PositionsTell ==
    ASSUME NEW t, NEW o \in Nat, NEW u \in Nat
    PROVE  /\ PositionOf(t, o) = PositionOf(t, u) <=> o = u
           /\ PositionLess(PositionOf(t, o), PositionOf(t, u)) <=> o < u
<1>1. PositionOf(t, o) \in Place /\ PositionOf(t, u) \in Place
    BY StartMeans
<1>2. o < u => PositionLess(PositionOf(t, o), PositionOf(t, u))
    BY PositionsGrow
<1>3. u < o => PositionLess(PositionOf(t, u), PositionOf(t, o))
    BY PositionsGrow
<1>4. o < u \/ u < o \/ o = u
    OBVIOUS
<1>5. ~PositionLess(PositionOf(t, o), PositionOf(t, o))
    BY <1>1, PlaceOrder
<1>6. ~(PositionLess(PositionOf(t, o), PositionOf(t, u)) /\ PositionLess(PositionOf(t, u), PositionOf(t, o)))
    BY <1>1, <1>5, PlaceOrder
<1>7. PositionOf(t, o) = PositionOf(t, u) =>
         /\ ~PositionLess(PositionOf(t, o), PositionOf(t, u))
         /\ ~PositionLess(PositionOf(t, u), PositionOf(t, o))
    BY <1>5
<1> QED
    BY <1>2, <1>3, <1>4, <1>5, <1>6, <1>7

\* Texts that begin alike have the same positions there.
LEMMA PositionsShared ==
    ASSUME NEW t, NEW v, NEW o \in Nat, \A x \in 1 .. o : t[x] = v[x]
    PROVE  PositionOf(t, o) = PositionOf(v, o)
<1>1. {x \in 1 .. o : t[x] = Newline} = {x \in 1 .. o : v[x] = Newline}
    OBVIOUS
<1> QED
    BY <1>1 DEF PositionOf

\* The lines that start before that of an offset are as many as its newlines.
LEMMA LinesBefore ==
    ASSUME NEW t \in Seq(STRING), NEW o \in 0 .. Len(t)
    PROVE  /\ StartOf(t, o) \in LineStarts(t)
           /\ Cardinality({s \in LineStarts(t) : s < StartOf(t, o)}) = Cardinality(Breaks(t, o))
           /\ \A x \in StartOf(t, o) + 1 .. o : t[x] # Newline
<1> DEFINE B == Breaks(t, o)
           s == StartOf(t, o)
           D == {x \in LineStarts(t) : x < s}
           C == {x \in B : x < s}
<1>0. o \in Nat /\ Len(t) \in Nat /\ o <= Len(t)
    OBVIOUS
<1>1. /\ s \in 0 .. o /\ (s = 0 \/ s \in B) /\ (\A x \in B : x <= s)
      /\ IsFiniteSet(B) /\ Cardinality(B) \in Nat
    BY <1>0, StartMeans
<1>2. B = {x \in 1 .. o : t[x] = Newline}
    BY DEF Breaks
<1>3. \A x : x \in LineStarts(t) <=> x = 0 \/ (x \in 1 .. Len(t) /\ t[x] = Newline)
    BY DEF LineStarts
<1> HIDE DEF B, s
<1>4. s \in LineStarts(t)
    BY <1>0, <1>1, <1>2, <1>3
<1>5. \A x \in s + 1 .. o : t[x] # Newline
    <2>1. ASSUME NEW x \in s + 1 .. o, t[x] = Newline PROVE FALSE
        <3>1. x \in 1 .. o
            BY <1>1
        <3>2. x \in B
            BY <1>2, <2>1, <3>1
        <3> QED
            BY <1>1, <3>2
    <2> QED
        BY <2>1
<1>6. Cardinality(D) = Cardinality(B)
    <2>1. CASE s = 0
        <3>1. D = {}
            <4>1. \A x \in LineStarts(t) : ~(x < 0)
                BY <1>3
            <4> QED
                BY <2>1, <4>1
        <3>2. B = {}
            BY <1>1, <1>2, <2>1
        <3> QED
            BY <3>1, <3>2
    <2>2. CASE s # 0
        <3>1. s \in B /\ s \notin C /\ 0 \notin C
            BY <1>1, <1>2, <2>2
        <3>2. B = C \cup {s}
            BY <1>0, <1>1, <1>2, <3>1
        <3>3. D = C \cup {0}
            <4>1. ASSUME NEW x \in D PROVE x \in C \cup {0}
                BY <1>0, <1>1, <1>2, <1>3
            <4>2. ASSUME NEW x \in C \cup {0} PROVE x \in D
                BY <1>0, <1>1, <1>2, <1>3, <2>2
            <4> QED
                BY <4>1, <4>2
        <3>4. IsFiniteSet(C)
            BY <1>1, FS_Subset
        <3> HIDE DEF C, D
        <3>5. Cardinality(C \cup {s}) = Cardinality(C) + 1
            BY <3>1, <3>4, FS_AddElement
        <3>6. Cardinality(C \cup {0}) = Cardinality(C) + 1
            BY <3>1, <3>4, FS_AddElement
        <3> QED
            BY <3>2, <3>3, <3>5, <3>6
    <2> QED
        BY <2>1, <2>2
<1> QED
    BY <1>4, <1>5, <1>6 DEF B, s

\* The starts of lines are in order, each at its place.
LEMMA LinesRanked ==
    ASSUME NEW t \in Seq(STRING)
    PROVE  /\ LineStarts(t) \in SUBSET (0 .. Len(t)) /\ IsFiniteSet(LineStarts(t))
           /\ Cardinality(LineStarts(t)) \in Nat
           /\ \A s \in LineStarts(t) :
                 Cardinality({x \in LineStarts(t) : x < s}) \in 0 .. Cardinality(LineStarts(t)) - 1
           /\ \A l \in 0 .. Cardinality(LineStarts(t)) - 1 :
                 /\ LineStart(t, l) \in LineStarts(t)
                 /\ Cardinality({x \in LineStarts(t) : x < LineStart(t, l)}) = l
           /\ \A s \in LineStarts(t) : \A u \in LineStarts(t) :
                 Cardinality({x \in LineStarts(t) : x < s}) = Cardinality({x \in LineStarts(t) : x < u})
                    => s = u
<1> DEFINE S == LineStarts(t)
           R == {xy \in S \X S : xy[1] < xy[2]}
           before(s) == Cardinality({x \in S : x < s})
<1>1. S \in SUBSET (0 .. Len(t))
    BY DEF LineStarts
<1>2. IsFiniteSet(S)
    <2>1. IsFiniteSet(0 .. Len(t))
        BY FS_Interval
    <2> HIDE DEF S
    <2> QED
        BY <1>1, <2>1, FS_Subset
<1>3. Cardinality(S) \in Nat
    BY <1>2, FS_CardinalityType
<1>4. \A l : LineStart(t, l) = CHOOSE s \in S : before(s) = l
    BY DEF LineStart
<1> HIDE DEF S
<1>5. Orders(R, S)
    <2>1. \A x \in S : x \in Int
        BY <1>1
    <2> QED
        BY <2>1 DEF Orders
<1>6. \A s \in S : before(s) = Cardinality(Below(R, S, s))
    <2>1. ASSUME NEW s \in S PROVE {x \in S : x < s} = Below(R, S, s)
        BY DEF Below
    <2> QED
        BY <2>1
<1> HIDE DEF R
<1>7. /\ \A i \in S : Cardinality(Below(R, S, i)) \in 0 .. Cardinality(S) - 1
      /\ \A i, j \in S : Cardinality(Below(R, S, i)) = Cardinality(Below(R, S, j)) => i = j
      /\ \A m \in 0 .. Cardinality(S) - 1 : \E i \in S : Cardinality(Below(R, S, i)) = m
    BY <1>2, <1>5, Ranks
<1> HIDE DEF before
<1>8. ASSUME NEW l \in 0 .. Cardinality(S) - 1
      PROVE  LineStart(t, l) \in S /\ before(LineStart(t, l)) = l
    <2>1. \E i \in S : before(i) = l
        BY <1>6, <1>7
    <2> QED
        BY <1>4, <2>1
<1>9. \A s \in S : before(s) \in 0 .. Cardinality(S) - 1
    BY <1>6, <1>7
<1>10. \A s \in S : \A u \in S : before(s) = before(u) => s = u
    BY <1>6, <1>7
<1> QED
    BY <1>1, <1>2, <1>3, <1>8, <1>9, <1>10 DEF S, before

\* The end of a line, and what lies before it.
LEMMA LineEndMeans ==
    ASSUME NEW t \in Seq(STRING), NEW s \in 0 .. Len(t), NEW c \in Nat
    PROVE  /\ LineEnd(t, s) \in s .. Len(t)
           /\ s + c <= LineEnd(t, s) <=> s + c <= Len(t) /\ \A x \in s + 1 .. s + c : t[x] # Newline
<1> DEFINE n == Len(t)
           Ends(e) == (e = n \/ t[e + 1] = Newline) /\ \A m \in s + 1 .. e : t[m] # Newline
           T == {e \in s .. n : e = n \/ t[e + 1] = Newline}
           E == LineEnd(t, s)
<1>0. n \in Nat /\ s \in Nat /\ s <= n
    OBVIOUS
<1>1. E = CHOOSE e \in s .. n : Ends(e)
    BY DEF LineEnd
<1>2. \E e \in s .. n : Ends(e)
    <2>1. T \in SUBSET Nat /\ n \in T
        BY <1>0
    <2>2. PICK e \in T : \A f \in T : e <= f
        <3> HIDE DEF T
        <3> QED
            BY <2>1, LeastNat
    <2>3. ASSUME NEW m \in s + 1 .. e, t[m] = Newline PROVE FALSE
        <3>1. m - 1 \in s .. n /\ (m - 1) + 1 = m /\ m - 1 < e
            BY <1>0, <2>2
        <3>2. m - 1 \in T
            BY <2>3, <3>1
        <3>3. e \in Int /\ m \in Int
            BY <1>0, <2>2
        <3>4. e <= m - 1
            <4> HIDE DEF T
            <4> QED
                BY <2>2, <3>2
        <3> QED
            BY <3>1, <3>3, <3>4
    <2> QED
        BY <2>2, <2>3
<1> HIDE DEF E
<1>3. E \in s .. n /\ Ends(E)
    BY <1>1, <1>2
<1>4. ASSUME s + c <= E
      PROVE  s + c <= n /\ \A x \in s + 1 .. s + c : t[x] # Newline
    BY <1>0, <1>3, <1>4
<1>5. ASSUME s + c <= n, \A x \in s + 1 .. s + c : t[x] # Newline, E < s + c
      PROVE  FALSE
    <2>1. E # n /\ E + 1 \in s + 1 .. s + c
        BY <1>0, <1>3, <1>5
    <2> QED
        BY <1>3, <1>5, <2>1
<1> QED
    BY <1>0, <1>3, <1>4, <1>5 DEF E

\* The end of a line is an offset.
LEMMA LineEndIs ==
    ASSUME NEW t \in Seq(STRING), NEW s \in 0 .. Len(t)
    PROVE  LineEnd(t, s) \in Int
<1>1. 0 \in Nat
    OBVIOUS
<1>2. LineEnd(t, s) \in s .. Len(t)
    BY <1>1, LineEndMeans
<1> QED
    BY <1>2

\* positionToOffset finds the offset that has the position, and no other.
LEMMA OffsetMeans ==
    ASSUME NEW t \in Seq(STRING), NEW pos \in Place
    PROVE  /\ \/ Offset(t, pos) = -1
              \/ Offset(t, pos) \in 0 .. Len(t) /\ PositionOf(t, Offset(t, pos)) = pos
           /\ \A o \in 0 .. Len(t) : PositionOf(t, o) = pos => Offset(t, pos) = o
<1> DEFINE n == Len(t)
           LS == LineStarts(t)
           before(s) == Cardinality({x \in LS : x < s})
           s0 == LineStart(t, pos.line)
           none == pos.line < 0 \/ pos.char < 0 \/ pos.line >= Cardinality(LS)
<1>0. n \in Nat /\ pos.line \in Int /\ pos.char \in Int /\ pos = [line |-> pos.line, char |-> pos.char]
    BY DEF Place
<1>1. /\ LS \in SUBSET (0 .. n) /\ Cardinality(LS) \in Nat
      /\ \A s \in LS : before(s) \in 0 .. Cardinality(LS) - 1
      /\ \A l \in 0 .. Cardinality(LS) - 1 : LineStart(t, l) \in LS /\ before(LineStart(t, l)) = l
      /\ \A s \in LS : \A u \in LS : before(s) = before(u) => s = u
    BY LinesRanked
<1>2. Offset(t, pos) = IF none THEN -1
                       ELSE IF s0 + pos.char > LineEnd(t, s0) THEN -1 ELSE s0 + pos.char
    BY DEF Offset
<1>3. \A s \in LS : s = 0 \/ (s \in 1 .. n /\ t[s] = Newline)
    BY DEF LineStarts
<1>4. ASSUME NEW o \in 0 .. n
      PROVE  /\ StartOf(t, o) \in LS /\ before(StartOf(t, o)) = Cardinality(Breaks(t, o))
             /\ \A x \in StartOf(t, o) + 1 .. o : t[x] # Newline
             /\ StartOf(t, o) \in 0 .. o /\ o \in Nat
             /\ PositionOf(t, o) = [line |-> before(StartOf(t, o)), char |-> o - StartOf(t, o)]
    <2>1. o \in Nat
        BY <1>0
    <2>2. /\ StartOf(t, o) \in LS /\ before(StartOf(t, o)) = Cardinality(Breaks(t, o))
          /\ \A x \in StartOf(t, o) + 1 .. o : t[x] # Newline
        BY LinesBefore
    <2>3. /\ StartOf(t, o) \in 0 .. o
          /\ PositionOf(t, o) = [line |-> Cardinality(Breaks(t, o)), char |-> o - StartOf(t, o)]
        BY <2>1, StartMeans
    <2> QED
        BY <2>1, <2>2, <2>3
<1> HIDE DEF n, LS, before
<1>5. ASSUME Offset(t, pos) # -1
      PROVE  Offset(t, pos) \in 0 .. n /\ PositionOf(t, Offset(t, pos)) = pos
    <2>1. ~none /\ ~(s0 + pos.char > LineEnd(t, s0)) /\ Offset(t, pos) = s0 + pos.char
        BY <1>2, <1>5
    <2>2. pos.line \in 0 .. Cardinality(LS) - 1 /\ pos.char \in Nat
        BY <1>0, <1>1, <2>1
    <2>3. s0 \in LS /\ before(s0) = pos.line /\ s0 \in 0 .. n
        BY <1>1, <2>2
    <2> HIDE DEF s0, none
    <2> DEFINE o == s0 + pos.char
    <2>4. o <= n /\ \A x \in s0 + 1 .. o : t[x] # Newline
        <3>1. s0 \in 0 .. Len(t)
            BY <2>3 DEF n
        <3>2. o <= LineEnd(t, s0)
            <4>1. LineEnd(t, s0) \in Int
                BY <1>0, <3>1, LineEndIs DEF n
            <4> QED
                BY <1>0, <2>1, <2>3, <4>1
        <3>3. s0 + pos.char <= LineEnd(t, s0) <=>
                 s0 + pos.char <= Len(t) /\ \A x \in s0 + 1 .. s0 + pos.char : t[x] # Newline
            BY <2>2, <3>1, LineEndMeans
        <3> QED
            BY <3>2, <3>3 DEF n
    <2>5. o \in 0 .. n /\ s0 <= o /\ o - s0 = pos.char
        BY <1>0, <2>2, <2>3, <2>4
    <2> HIDE DEF o
    <2>6. /\ StartOf(t, o) \in LS /\ StartOf(t, o) \in 0 .. o /\ o \in Nat
          /\ \A x \in StartOf(t, o) + 1 .. o : t[x] # Newline
          /\ PositionOf(t, o) = [line |-> before(StartOf(t, o)), char |-> o - StartOf(t, o)]
        BY <1>4, <2>5
    <2>7. StartOf(t, o) = s0
        <3>1. ASSUME s0 < StartOf(t, o) PROVE FALSE
            <4>1. StartOf(t, o) \in s0 + 1 .. o /\ StartOf(t, o) # 0
                BY <2>3, <2>6, <3>1
            <4> QED
                BY <1>3, <2>4, <2>6, <4>1 DEF o
        <3>2. ASSUME StartOf(t, o) < s0 PROVE FALSE
            <4>1. s0 \in StartOf(t, o) + 1 .. o /\ s0 # 0
                BY <2>3, <2>5, <2>6, <3>2
            <4> QED
                BY <1>3, <2>3, <2>6, <4>1
        <3> QED
            BY <2>3, <2>6, <3>1, <3>2
    <2>8. PositionOf(t, o) = pos
        BY <1>0, <2>3, <2>5, <2>6, <2>7
    <2> QED
        BY <2>1, <2>5, <2>8 DEF o
<1>6. ASSUME NEW o \in 0 .. n, PositionOf(t, o) = pos
      PROVE  Offset(t, pos) = o
    <2> DEFINE s == StartOf(t, o)
    <2>1. /\ s \in LS /\ s \in 0 .. o /\ o \in Nat
          /\ \A x \in s + 1 .. o : t[x] # Newline
          /\ pos.line = before(s) /\ pos.char = o - s
        BY <1>4, <1>6
    <2>2. before(s) \in 0 .. Cardinality(LS) - 1 /\ s \in 0 .. n
        BY <1>1, <2>1
    <2>3. LineStart(t, before(s)) = s
        BY <1>1, <2>1, <2>2
    <2> HIDE DEF s
    <2>4. ~none
        BY <1>1, <2>1, <2>2
    <2>5. s0 = s /\ s0 + pos.char = o
        BY <2>1, <2>2, <2>3
    <2>6. o <= LineEnd(t, s)
        <3>1. s \in 0 .. Len(t) /\ pos.char \in Nat /\ s + pos.char = o /\ o <= Len(t)
            BY <1>0, <2>1, <2>2 DEF n
        <3>2. s + pos.char <= LineEnd(t, s)
            BY <2>1, <3>1, LineEndMeans
        <3> QED
            BY <3>1, <3>2
    <2>7. ~(o > LineEnd(t, s))
        <3>1. LineEnd(t, s) \in Int /\ o \in Int
            BY <2>1, <2>2, LineEndIs DEF n
        <3> QED
            BY <2>6, <3>1
    <2> QED
        BY <1>2, <2>4, <2>5, <2>7
<1> QED
    BY <1>5, <1>6 DEF n

\* So it gives the place of the position in the text.
LEMMA PlaceMeans ==
    ASSUME NEW t \in Seq(STRING), NEW pos \in Place
    PROVE  /\ Offset(t, pos) = PlaceOf(t, pos)
           /\ PlaceOf(t, pos) \in -1 .. Len(t)
           /\ PlaceOf(t, pos) >= 0 => PositionOf(t, PlaceOf(t, pos)) = pos
           /\ \A o \in 0 .. Len(t) : PositionOf(t, o) = pos => PlaceOf(t, pos) = o
<1> DEFINE f == Offset(t, pos)
           S == {-1} \cup {o \in 0 .. Len(t) : PositionOf(t, o) = pos}
<1>0. Len(t) \in Nat
    OBVIOUS
<1>1. /\ f = -1 \/ (f \in 0 .. Len(t) /\ PositionOf(t, f) = pos)
      /\ \A o \in 0 .. Len(t) : PositionOf(t, o) = pos => f = o
    BY OffsetMeans
<1> HIDE DEF f
<1>2. f \in S /\ \A x \in S : f >= x
    <2>1. CASE f = -1
        BY <1>0, <1>1, <2>1
    <2>2. CASE f # -1
        BY <1>0, <1>1, <2>2
    <2> QED
        BY <2>1, <2>2
<1>3. \A x \in S : x \in Int
    BY <1>0
<1>4. PlaceOf(t, pos) = Max(S)
    BY DEF PlaceOf
<1> HIDE DEF S
<1>5. Max(S) = f
    <2>1. Max(S) \in S /\ \A x \in S : Max(S) >= x
        BY <1>2 DEF Max
    <2> QED
        BY <1>2, <1>3, <2>1
<1> QED
    BY <1>0, <1>1, <1>4, <1>5 DEF f

(* ------------------------------ concatenation ---------------------------- *)

Text == Seq(STRING)
\* What the first i sequences of q are, one after the other.
FlatTo(q) ==
    LET flat[i \in 0 .. Len(q)] == IF i = 0 THEN << >> ELSE flat[i - 1] \o q[i] IN flat

\* Texts put one after the other.
LEMMA TextsJoin ==
    /\ << >> \in Text
    /\ \A s, u \in Text : s \o u \in Text
    /\ \A s \in Text : s \o << >> = s /\ << >> \o s = s
    /\ \A s, u, v \in Text : (s \o u) \o v = s \o (u \o v)
<1>1. << >> \in Text
    BY DEF Text
<1>2. ASSUME NEW s \in Text, NEW u \in Text PROVE s \o u \in Text
    BY ConcatProperties DEF Text
<1>3. ASSUME NEW s \in Text PROVE s \o << >> = s /\ << >> \o s = s
    BY ConcatEmptySeq DEF Text
<1>4. ASSUME NEW s \in Text, NEW u \in Text, NEW v \in Text PROVE (s \o u) \o v = s \o (u \o v)
    <2>1. s \in Seq(STRING) /\ u \in Seq(STRING) /\ v \in Seq(STRING)
        BY DEF Text
    <2> QED
        BY <2>1, ConcatAssociative
<1> QED
    BY <1>1, <1>2, <1>3, <1>4

Associate(s, u, v) == (s \o u) \o v = s \o (u \o v)
\* Where the parentheses stand makes no difference.
LEMMA TextsAssociate == \A s, u, v \in Text : Associate(s, u, v)
BY ConcatAssociative DEF Text, Associate

\* Joining sequences.
LEMMA JoinMeans ==
    ASSUME NEW D
    PROVE  /\ << >> \in Seq(D)
           /\ \A s, u \in Seq(D) : s \o u \in Seq(D)
           /\ \A s \in Seq(D) : s \o << >> = s /\ << >> \o s = s
<1>1. \A s, u \in Seq(D) : s \o u \in Seq(D)
    BY ConcatProperties
<1>2. \A s \in Seq(D) : s \o << >> = s /\ << >> \o s = s
    BY ConcatEmptySeq
<1> QED
    BY <1>1, <1>2

\* The recursion that defines the prefixes.
LEMMA FlatPrefixes ==
    ASSUME NEW D, NEW q \in Seq(Seq(D))
    PROVE  /\ FlatTo(q)[0] = << >> /\ DOMAIN FlatTo(q) = 0 .. Len(q)
           /\ \A i \in 1 .. Len(q) : FlatTo(q)[i] = FlatTo(q)[i - 1] \o q[i] /\ q[i] \in Seq(D)
           /\ \A i \in 0 .. Len(q) : FlatTo(q)[i] \in Seq(D)
<1> DEFINE Rows == Seq(D)
           n == Len(q)
           F == [m \in 1 .. n |-> [v \in Rows |-> v \o q[m]]]
           Body(f) == [i \in 0 .. n |-> IF i = 0 THEN << >> ELSE f[i - 1] \o q[i]]
           G == FlatTo(q)
<1>0. n \in Nat /\ \A i \in 1 .. n : q[i] \in Rows
    OBVIOUS
<1>11. /\ << >> \in Rows /\ \A s, u \in Rows : s \o u \in Rows
       /\ \A s \in Rows : s \o << >> = s /\ << >> \o s = s
    BY JoinMeans
<1> HIDE DEF Rows
<1>1. F \in [1 .. n -> [Rows -> Rows]]
    BY <1>0, <1>11
<1>2. \A m \in 1 .. n : \A v \in Rows : F[m][v] = v \o q[m]
    OBVIOUS
<1>3. G = CHOOSE f : f = Body(f)
    BY DEF FlatTo
<1> HIDE DEF n, F, G
<1>4. PICK f : Solves(f, n, Rows, << >>, F)
    BY <1>0, <1>1, <1>11, Recursion
<1>5. f \in [0 .. n -> Rows] /\ f[0] = << >> /\ \A m \in 1 .. n : f[m] = F[m][f[m - 1]]
    BY <1>4 DEF Solves
<1>6. \A k \in 0 .. n : f[k] = Body(f)[k]
    <2>1. \A k \in 1 .. n : f[k - 1] \in Rows
        BY <1>0, <1>5
    <2>2. \A k \in 1 .. n : f[k] = f[k - 1] \o q[k]
        BY <1>2, <1>5, <2>1
    <2>3. ASSUME NEW k \in 0 .. n, k # 0 PROVE k \in 1 .. n
        BY <1>0, <2>3
    <2> QED
        BY <1>5, <2>2, <2>3
<1>7. f = Body(f)
    <2>1. f = [k \in 0 .. n |-> f[k]] /\ Body(f) = [k \in 0 .. n |-> Body(f)[k]]
        BY <1>5
    <2> HIDE DEF Body
    <2> QED
        BY <1>6, <2>1
<1>8. G = Body(G)
    <2>1. \E g : g = Body(g)
        BY <1>7
    <2> HIDE DEF Body
    <2> QED
        BY <1>3, <2>1
<1>9. G[0] = << >> /\ DOMAIN G = 0 .. n /\ \A i \in 1 .. n : G[i] = G[i - 1] \o q[i]
    <2>1. DOMAIN G = 0 .. n
        BY <1>8
    <2>2. \A i \in 0 .. n : G[i] = IF i = 0 THEN << >> ELSE G[i - 1] \o q[i]
        BY <1>8
    <2>3. 0 \in 0 .. n /\ \A i \in 1 .. n : i \in 0 .. n /\ i # 0
        BY <1>0
    <2> HIDE DEF Body
    <2>4. G[0] = << >>
        BY <2>2, <2>3
    <2>5. \A i \in 1 .. n : G[i] = G[i - 1] \o q[i]
        BY <2>2, <2>3
    <2> QED
        BY <2>1, <2>4, <2>5
<1>10. \A i \in 0 .. n : G[i] \in Rows
    <2> DEFINE T == {i \in Nat : G[i] \in Rows}
    <2>1. 0 \in T
        BY <1>9, <1>11
    <2>2. ASSUME NEW k \in 0 .. n - 1, k \in T PROVE k + 1 \in T
        <3>1. k + 1 \in 1 .. n /\ (k + 1) - 1 = k /\ k + 1 \in Nat
            BY <1>0
        <3>2. G[k + 1] = G[k] \o q[k + 1] /\ q[k + 1] \in Rows /\ G[k] \in Rows
            BY <1>0, <1>9, <2>2, <3>1
        <3> QED
            BY <3>1, <3>2, <1>11
    <2>3. T \in SUBSET Nat
        OBVIOUS
    <2>4. \A i \in 0 .. n : i \in T
        <3> HIDE DEF T
        <3> QED
            BY <1>0, <2>1, <2>2, <2>3, UpTo
    <2> QED
        BY <2>4
<1> QED
    BY <1>0, <1>9, <1>10 DEF n, G, Rows

\* FlattenSeq puts them all one after the other.
LEMMA FlattenIsFlat ==
    ASSUME NEW D, NEW q \in Seq(Seq(D))
    PROVE  FlattenSeq(q) = FlatTo(q)[Len(q)]
<1> DEFINE Rows == Seq(D)
           n == Len(q)
           G == FlatTo(q)
           Body(f) == [i \in 1 .. n |-> IF i = 1 THEN q[i] ELSE f[i - 1] \o q[i]]
           F == CHOOSE f : f = Body(f)
           H == [i \in 1 .. n |-> G[i]]
<1>0. n \in Nat
    OBVIOUS
<1>11. \A s \in Rows : << >> \o s = s
    BY JoinMeans
<1>9. G[0] = << >> /\ \A i \in 1 .. n : G[i] = G[i - 1] \o q[i] /\ q[i] \in Rows
    BY FlatPrefixes, Zenon
<1> HIDE DEF Rows
<1>1. FlattenSeq(q) = IF n = 0 THEN q ELSE F[n]
    BY DEF FlattenSeq
<1>2. n = 0 => q = << >>
    OBVIOUS
<1> HIDE DEF n, G, F
<1>3. ASSUME NEW i \in 1 .. n PROVE H[i] = Body(H)[i]
    <2>1. CASE i = 1
        <3>2. 1 \in 1 .. n /\ 1 - 1 = 0
            BY <1>0, <2>1
        <3>3. G[1] = G[1 - 1] \o q[1] /\ q[1] \in Rows
            BY <1>9, <3>2
        <3>1. G[1] = << >> \o q[1] /\ q[1] \in Rows
            BY <1>9, <3>2, <3>3
        <3> QED
            BY <2>1, <3>1, <1>11
    <2>2. CASE i # 1
        <3>1. i - 1 \in 1 .. n
            BY <1>0, <2>2
        <3> QED
            BY <1>9, <2>2, <3>1
    <2> QED
        BY <2>1, <2>2
<1>4. H = Body(H)
    <2>1. H = [i \in 1 .. n |-> H[i]] /\ Body(H) = [i \in 1 .. n |-> Body(H)[i]]
        OBVIOUS
    <2> HIDE DEF Body, H
    <2> QED
        BY <1>3, <2>1
<1> HIDE DEF H
<1>5. F = Body(F)
    <2>1. \E g : g = Body(g)
        BY <1>4
    <2> HIDE DEF Body
    <2> QED
        BY <2>1 DEF F
<1>6. \A i \in 1 .. n : F[i] = G[i]
    <2> DEFINE T == {i \in Nat : i = 0 \/ F[i] = G[i]}
    <2>1. 0 \in T
        OBVIOUS
    <2>2. ASSUME NEW k \in 0 .. n - 1, k \in T PROVE k + 1 \in T
        <3>1. k + 1 \in 1 .. n /\ (k + 1) - 1 = k /\ k + 1 \in Nat
            BY <1>0
        <3>2. CASE k = 0
            <4>3. 1 \in 1 .. n /\ 1 - 1 = 0
                BY <3>1, <3>2
            <4>4. G[1] = G[1 - 1] \o q[1] /\ q[1] \in Rows
                BY <1>9, <4>3
            <4>5. F[1] = q[1]
                BY <1>5, <4>3
            <4>1. F[1] = q[1] /\ G[1] = << >> \o q[1] /\ q[1] \in Rows
                BY <1>9, <4>3, <4>4, <4>5
            <4>2. F[1] = G[1]
                BY <4>1, <1>11
            <4> QED
                BY <3>1, <3>2, <4>2
        <3>3. CASE k # 0
            <4>2. k + 1 # 1
                BY <1>0, <3>3
            <4>3. F[k + 1] = F[(k + 1) - 1] \o q[k + 1]
                BY <1>5, <3>1, <4>2
            <4>4. G[k + 1] = G[(k + 1) - 1] \o q[k + 1]
                BY <1>9, <3>1
            <4>1. F[k + 1] = F[k] \o q[k + 1] /\ G[k + 1] = G[k] \o q[k + 1]
                BY <3>1, <4>3, <4>4
            <4> QED
                BY <2>2, <3>1, <3>3, <4>1
        <3> QED
            BY <3>2, <3>3
    <2>3. T \in SUBSET Nat
        OBVIOUS
    <2>4. \A i \in 0 .. n : i \in T
        <3> HIDE DEF T
        <3> QED
            BY <1>0, <2>1, <2>2, <2>3, UpTo
    <2> QED
        BY <1>0, <2>4
<1>7. CASE n = 0
    BY <1>1, <1>2, <1>7, <1>9 DEF n, G
<1>8. CASE n # 0
    <2>1. n \in 1 .. n
        BY <1>0, <1>8
    <2> QED
        BY <1>1, <1>6, <1>8, <2>1 DEF n, G
<1> QED
    BY <1>7, <1>8

\* The same of texts.
LEMMA FlatToMeans ==
    ASSUME NEW q \in Seq(Text)
    PROVE  /\ FlatTo(q)[0] = << >> /\ DOMAIN FlatTo(q) = 0 .. Len(q)
           /\ \A i \in 1 .. Len(q) : FlatTo(q)[i] = FlatTo(q)[i - 1] \o q[i] /\ q[i] \in Text
           /\ \A i \in 0 .. Len(q) : FlatTo(q)[i] \in Text
BY FlatPrefixes, Zenon DEF Text

\* The same of texts.
LEMMA Flattened ==
    ASSUME NEW q \in Seq(Text)
    PROVE  FlattenSeq(q) = FlatTo(q)[Len(q)]
BY FlattenIsFlat, Zenon DEF Text

\* Empty texts add nothing.
LEMMA NothingAdded ==
    ASSUME NEW q \in Seq(Text), NEW b \in Nat, NEW c \in Nat, b <= c, c <= Len(q),
           \A i \in b + 1 .. c : q[i] = << >>
    PROVE  FlatTo(q)[c] = FlatTo(q)[b]
<1> DEFINE G == FlatTo(q)
           T == {i \in Nat : G[b + i] = G[b]}
<1>0. Len(q) \in Nat /\ c - b \in Nat
    OBVIOUS
<1>1. /\ \A i \in 1 .. Len(q) : G[i] = G[i - 1] \o q[i]
      /\ \A i \in 0 .. Len(q) : G[i] \in Text
    BY FlatToMeans
<1> HIDE DEF G
<1>3. 0 \in T
    OBVIOUS
<1>4. ASSUME NEW k \in 0 .. (c - b) - 1, k \in T PROVE k + 1 \in T
    <2>1. /\ b + (k + 1) \in b + 1 .. c /\ b + (k + 1) \in 1 .. Len(q) /\ k + 1 \in Nat
          /\ (b + (k + 1)) - 1 = b + k /\ b + k \in 0 .. Len(q)
        BY <1>0
    <2>2. q[b + (k + 1)] = << >>
        BY <2>1
    <2>3. G[b + (k + 1)] = G[b + k] \o << >> /\ G[b + k] \in Text
        BY <1>1, <2>1, <2>2
    <2>4. G[b + (k + 1)] = G[b + k]
        BY <2>3, TextsJoin
    <2> QED
        BY <1>4, <2>1, <2>4
<1>5. T \in SUBSET Nat
    OBVIOUS
<1> HIDE DEF T
<1>6. c - b \in T
    <2>1. \A i \in 0 .. c - b : i \in T
        BY <1>0, <1>3, <1>4, <1>5, UpTo
    <2> QED
        BY <1>0, <2>1
<1>7. G[b + (c - b)] = G[b] /\ b + (c - b) = c
    BY <1>6 DEF T
<1> QED
    BY <1>7 DEF G

\* Where two sequences of texts are the same after c, so are their ends.
LEMMA TailShared ==
    ASSUME NEW q \in Seq(Text), NEW r \in Seq(Text), NEW c \in Nat, c <= Len(q), Len(q) = Len(r),
           \A i \in c + 1 .. Len(q) : q[i] = r[i]
    PROVE  \E D \in Text : /\ FlatTo(q)[Len(q)] = FlatTo(q)[c] \o D
                           /\ FlatTo(r)[Len(r)] = FlatTo(r)[c] \o D
<1> DEFINE n == Len(q)
           G == FlatTo(q)
           H == FlatTo(r)
           T == {i \in Nat : \E D \in Text : G[c + i] = G[c] \o D /\ H[c + i] = H[c] \o D}
<1>0. n \in Nat /\ n = Len(r) /\ c <= n /\ n - c \in Nat /\ \A i \in c + 1 .. n : q[i] = r[i]
    OBVIOUS
<1>1. /\ \A i \in 1 .. n : G[i] = G[i - 1] \o q[i] /\ q[i] \in Text
      /\ \A i \in 0 .. n : G[i] \in Text
    BY FlatToMeans
<1>2. /\ \A i \in 1 .. n : H[i] = H[i - 1] \o r[i]
      /\ \A i \in 0 .. n : H[i] \in Text
    BY <1>0, FlatToMeans
<1> HIDE DEF G, H, n
<1>3. 0 \in T
    <2>1. c \in 0 .. n /\ c + 0 = c
        BY <1>0
    <2>2. G[c] \o << >> = G[c] /\ H[c] \o << >> = H[c] /\ << >> \in Text
        BY <1>1, <1>2, <2>1, TextsJoin
    <2> QED
        BY <2>1, <2>2
<1>4. ASSUME NEW k \in 0 .. (n - c) - 1, k \in T PROVE k + 1 \in T
    <2>0. k \in Nat
        BY <1>0
    <2>1. /\ c + (k + 1) \in c + 1 .. n /\ c + (k + 1) \in 1 .. n /\ k + 1 \in Nat
          /\ (c + (k + 1)) - 1 = c + k /\ c + k \in 0 .. n /\ c \in 0 .. n
        BY <1>0, <2>0
    <2>2. PICK D \in Text : G[c + k] = G[c] \o D /\ H[c + k] = H[c] \o D
        BY <1>4
    <2> DEFINE e == q[c + (k + 1)]
    <2>3. e \in Text /\ r[c + (k + 1)] = e
        BY <1>0, <1>1, <2>1
    <2>4. G[c + (k + 1)] = G[c + k] \o e /\ H[c + (k + 1)] = H[c + k] \o e
        BY <1>1, <1>2, <2>1, <2>3
    <2> HIDE DEF e
    <2>7. G[c] \in Text /\ H[c] \in Text
        BY <1>1, <1>2, <2>1
    <2>5. D \o e \in Text /\ (G[c] \o D) \o e = G[c] \o (D \o e) /\ (H[c] \o D) \o e = H[c] \o (D \o e)
        <3>1. D \o e \in Text
            BY <2>3, TextsJoin
        <3>2. (G[c] \o D) \o e = G[c] \o (D \o e) /\ (H[c] \o D) \o e = H[c] \o (D \o e)
            <4>1. Associate(G[c], D, e) /\ Associate(H[c], D, e)
                BY <2>3, <2>7, TextsAssociate
            <4> QED
                BY <4>1 DEF Associate
        <3> QED
            BY <3>1, <3>2
    <2>6. G[c + (k + 1)] = G[c] \o (D \o e) /\ H[c + (k + 1)] = H[c] \o (D \o e)
        BY <2>2, <2>4, <2>5
    <2> QED
        BY <2>1, <2>5, <2>6
<1>5. T \in SUBSET Nat
    OBVIOUS
<1> HIDE DEF T
<1>6. n - c \in T
    <2>1. \A i \in 0 .. n - c : i \in T
        BY <1>0, <1>3, <1>4, <1>5, UpTo
    <2> QED
        BY <1>0, <2>1
<1>7. c + (n - c) = n
    BY <1>0
<1>8. \E D \in Text : G[c + (n - c)] = G[c] \o D /\ H[c + (n - c)] = H[c] \o D
    BY <1>6 DEF T
<1> QED
    BY <1>0, <1>7, <1>8 DEF n, G, H

\* Texts of one character each are the characters.
LEMMA Letters ==
    ASSUME NEW t \in Text, NEW q \in Seq(Text), NEW c \in Nat, c <= Len(t), c <= Len(q),
           \A i \in 1 .. c : q[i] = <<t[i]>>
    PROVE  FlatTo(q)[c] = SubSeq(t, 1, c)
<1> DEFINE G == FlatTo(q)
           T == {i \in Nat : G[i] = SubSeq(t, 1, i)}
<1>0. Len(t) \in Nat /\ Len(q) \in Nat /\ t \in Seq(STRING)
    BY DEF Text
<1>1. G[0] = << >> /\ \A i \in 1 .. Len(q) : G[i] = G[i - 1] \o q[i]
    BY FlatToMeans
<1> HIDE DEF G
<1>3. 0 \in T
    <2>1. SubSeq(t, 1, 0) = << >>
        BY SubSeqEmpty
    <2> QED
        BY <1>1, <2>1
<1>4. ASSUME NEW k \in 0 .. c - 1, k \in T PROVE k + 1 \in T
    <2>1. k + 1 \in 1 .. c /\ k + 1 \in 1 .. Len(q) /\ k + 1 \in 1 .. Len(t)
          /\ (k + 1) - 1 = k /\ k + 1 \in Nat
          /\ 1 \in 1 .. Len(t)
        BY <1>0
    <2>2. SubSeq(t, 1, k + 1) = SubSeq(t, 1, (k + 1) - 1) \o <<t[k + 1]>>
        BY <1>0, <2>1, SubSeqRecursiveSecond
    <2>3. G[k + 1] = G[k] \o <<t[k + 1]>>
        BY <1>1, <2>1
    <2> QED
        BY <1>4, <2>1, <2>2, <2>3
<1>5. T \in SUBSET Nat
    OBVIOUS
<1> HIDE DEF T
<1>6. c \in T
    <2>1. \A i \in 0 .. c : i \in T
        BY <1>3, <1>4, <1>5, UpTo
    <2> QED
        BY <2>1
<1> QED
    BY <1>6 DEF T, G

\* What lies before a, and after b, in the first c characters of a text followed by D.
Halves(t, D, c, a, b) ==
    LET v == SubSeq(t, 1, c) \o D
    IN /\ v \in Text /\ Len(v) = c + Len(D)
       /\ \A x \in 1 .. c : v[x] = t[x]
       /\ SubSeq(v, 1, a) = SubSeq(t, 1, a)
       /\ SubSeq(v, b + 1, Len(v)) = SubSeq(t, b + 1, c) \o D
\* What stays before and after a place of a text whose beginning is that of another.
LEMMA Around ==
    ASSUME NEW t \in Text, NEW D \in Text, NEW c \in 0 .. Len(t), NEW a \in 0 .. c, NEW b \in 0 .. c
    PROVE  Halves(t, D, c, a, b)
<1> DEFINE v == SubSeq(t, 1, c) \o D
<1>0. t \in Seq(STRING) /\ D \in Seq(STRING) /\ Len(t) \in Nat /\ Len(D) \in Nat
    BY DEF Text
<1>00. c \in Nat /\ a \in Nat /\ b \in Nat /\ c <= Len(t) /\ a <= c /\ b <= c
    BY <1>0
<1>1. /\ SubSeq(t, 1, c) \in Seq(STRING) /\ Len(SubSeq(t, 1, c)) = c
      /\ \A i \in 1 .. c : SubSeq(t, 1, c)[i] = t[i]
    <2>1. \A i \in 1 .. c : t[i] \in STRING
        BY <1>0, <1>00
    <2>2. /\ SubSeq(t, 1, c) \in Seq(STRING)
          /\ Len(SubSeq(t, 1, c)) = IF 1 <= c THEN c - 1 + 1 ELSE 0
          /\ \A i \in 1 .. c - 1 + 1 : SubSeq(t, 1, c)[i] = t[1 + i - 1]
        BY <1>00, <2>1, SubSeqProperties
    <2> QED
        BY <1>00, <2>2
<1>2. v \in Seq(STRING) /\ Len(v) = c + Len(D)
    BY <1>0, <1>1, ConcatProperties
<1>3. \A i \in 1 .. c + Len(D) : v[i] = IF i <= c THEN SubSeq(t, 1, c)[i] ELSE D[i - c]
    BY <1>0, <1>1, ConcatProperties
<1> HIDE DEF v
<1>4. \A i \in 1 .. c : v[i] = t[i]
    BY <1>0, <1>00, <1>1, <1>3
<1>5. SubSeq(v, 1, a) = SubSeq(t, 1, a)
    <2>1. /\ \A i \in 1 .. a : v[i] \in STRING /\ t[i] \in STRING /\ v[i] = t[i]
        BY <1>0, <1>00, <1>4
    <2>2. /\ SubSeq(v, 1, a) \in Seq(STRING) /\ Len(SubSeq(v, 1, a)) = IF 1 <= a THEN a - 1 + 1 ELSE 0
          /\ \A i \in 1 .. a - 1 + 1 : SubSeq(v, 1, a)[i] = v[1 + i - 1]
        BY <1>00, <2>1, SubSeqProperties
    <2>3. /\ SubSeq(t, 1, a) \in Seq(STRING) /\ Len(SubSeq(t, 1, a)) = IF 1 <= a THEN a - 1 + 1 ELSE 0
          /\ \A i \in 1 .. a - 1 + 1 : SubSeq(t, 1, a)[i] = t[1 + i - 1]
        BY <1>00, <2>1, SubSeqProperties
    <2>4. \A i \in 1 .. Len(SubSeq(v, 1, a)) : SubSeq(v, 1, a)[i] = SubSeq(t, 1, a)[i]
        BY <1>00, <2>1, <2>2, <2>3
    <2>5. Len(SubSeq(v, 1, a)) = Len(SubSeq(t, 1, a))
        BY <2>2, <2>3
    <2> QED
        BY <2>2, <2>3, <2>4, <2>5, SeqEqual
<1>6. SubSeq(v, b + 1, Len(v)) = SubSeq(t, b + 1, c) \o D
    <2> DEFINE l == SubSeq(v, b + 1, Len(v))
               h == SubSeq(t, b + 1, c)
               r == h \o D
               d == Len(D)
    <2>0. d \in Nat /\ b + 1 \in Int /\ c + d \in Int /\ c \in Int
        BY <1>0, <1>00
    <2>1. \A i \in b + 1 .. c + d : v[i] \in STRING
        BY <1>00, <1>2, <2>0
    <2>2. \A i \in b + 1 .. c : t[i] \in STRING
        BY <1>0, <1>00
    <2>3. /\ l \in Seq(STRING) /\ Len(l) = IF b + 1 <= c + d THEN (c + d) - (b + 1) + 1 ELSE 0
          /\ \A i \in 1 .. (c + d) - (b + 1) + 1 : l[i] = v[(b + 1) + i - 1]
        BY <1>2, <2>0, <2>1, SubSeqProperties
    <2>4. /\ h \in Seq(STRING) /\ Len(h) = IF b + 1 <= c THEN c - (b + 1) + 1 ELSE 0
          /\ \A i \in 1 .. c - (b + 1) + 1 : h[i] = t[(b + 1) + i - 1]
        BY <2>0, <2>2, SubSeqProperties
    <2> HIDE DEF l, h, d
    <2>5. Len(h) = c - b /\ Len(l) = (c - b) + d
        BY <1>00, <2>0, <2>3, <2>4
    <2>6. /\ r \in Seq(STRING) /\ Len(r) = Len(h) + d
          /\ \A i \in 1 .. Len(h) + d : r[i] = IF i <= Len(h) THEN h[i] ELSE D[i - Len(h)]
        BY <1>0, <2>4, ConcatProperties DEF d
    <2> HIDE DEF r
    <2>7. ASSUME NEW i \in 1 .. (c - b) + d PROVE l[i] = r[i]
        <3>1. l[i] = v[b + i]
            <4>1. i \in 1 .. (c + d) - (b + 1) + 1 /\ (b + 1) + i - 1 = b + i
                BY <1>00, <2>0
            <4> QED
                BY <2>3, <4>1
        <3>2. CASE i <= c - b
            <4>1. b + i \in 1 .. c /\ i \in 1 .. c - (b + 1) + 1 /\ (b + 1) + i - 1 = b + i
                BY <1>00, <2>0, <3>2
            <4>2. r[i] = h[i] /\ h[i] = t[b + i]
                BY <2>4, <2>5, <2>6, <3>2, <4>1
            <4> QED
                BY <1>4, <3>1, <4>1, <4>2
        <3>3. CASE ~(i <= c - b)
            <4>1. b + i \in 1 .. c + d /\ ~(b + i <= c) /\ (b + i) - c = i - (c - b)
                BY <1>00, <2>0, <3>3
            <4>2. r[i] = D[i - (c - b)]
                BY <2>5, <2>6, <3>3
            <4>3. v[b + i] = D[(b + i) - c]
                BY <1>3, <4>1 DEF d
            <4> QED
                BY <3>1, <4>1, <4>2, <4>3
        <3> QED
            BY <3>2, <3>3
    <2>8. l = r
        BY <2>3, <2>5, <2>6, <2>7, SeqEqual
    <2> QED
        BY <2>8 DEF l, r, h, d
<1> QED
    BY <1>2, <1>4, <1>5, <1>6 DEF Text, v, Halves

(* --------------------------- what edits mean ----------------------------- *)

(* The edits J of a list, with new texts w, that replace what lies between the *)
(* offsets f and g of the text t.                                              *)
Inserts(w, f, J, o) == [i \in 1 .. Len(w) |-> IF i \in J /\ f[i] = o THEN w[i] ELSE << >>]
Kept(t, f, g, J, o) == o < Len(t) /\ \A i \in J : ~(f[i] <= o /\ o < g[i])
Piece(t, w, f, g, J, x) ==
    FlattenSeq(Inserts(w, f, J, x - 1)) \o (IF Kept(t, f, g, J, x - 1) THEN <<t[x]>> ELSE << >>)
Pieces(t, w, f, g, J) == [x \in 1 .. Len(t) + 1 |-> Piece(t, w, f, g, J, x)]
Merged(t, w, f, g, J) == FlattenSeq(Pieces(t, w, f, g, J))

\* What starts at an offset is a list of texts.
LEMMA InsertsMean ==
    ASSUME NEW w \in Seq(Text), NEW f, NEW J, NEW o
    PROVE  /\ Inserts(w, f, J, o) \in Seq(Text) /\ Len(Inserts(w, f, J, o)) = Len(w)
           /\ \A i \in 1 .. Len(w) :
                 Inserts(w, f, J, o)[i] = IF i \in J /\ f[i] = o THEN w[i] ELSE << >>
           /\ FlattenSeq(Inserts(w, f, J, o)) = FlatTo(Inserts(w, f, J, o))[Len(w)]
           /\ FlattenSeq(Inserts(w, f, J, o)) \in Text
<1> DEFINE q == Inserts(w, f, J, o)
<1>0. Len(w) \in Nat /\ \A i \in 1 .. Len(w) : w[i] \in Text
    OBVIOUS
<1>1. q = [i \in 1 .. Len(w) |-> IF i \in J /\ f[i] = o THEN w[i] ELSE << >>]
    BY DEF Inserts
<1> HIDE DEF q
<1>2. \A i \in 1 .. Len(w) : q[i] = (IF i \in J /\ f[i] = o THEN w[i] ELSE << >>) /\ q[i] \in Text
    BY <1>0, <1>1, TextsJoin
<1>3. q \in Seq(Text) /\ Len(q) = Len(w)
    <2>1. q = [i \in 1 .. Len(w) |-> q[i]]
        BY <1>1
    <2> QED
        BY <1>0, <1>2, <2>1
<1>4. FlattenSeq(q) = FlatTo(q)[Len(w)]
    BY <1>3, Flattened
<1>5. FlatTo(q)[Len(w)] \in Text
    <2>1. Len(w) \in 0 .. Len(q)
        BY <1>0, <1>3
    <2> QED
        BY <1>3, <2>1, FlatToMeans
<1> QED
    BY <1>2, <1>3, <1>4, <1>5 DEF q

\* Where no edit starts there is nothing new.
LEMMA InsertsNothing ==
    ASSUME NEW w \in Seq(Text), NEW f, NEW J, NEW o,
           \A i \in 1 .. Len(w) : ~(i \in J /\ f[i] = o)
    PROVE  FlattenSeq(Inserts(w, f, J, o)) = << >>
<1> DEFINE q == Inserts(w, f, J, o)
<1>0. Len(w) \in Nat /\ 0 \in Nat /\ 0 <= Len(w)
    OBVIOUS
<1>1. /\ q \in Seq(Text) /\ Len(q) = Len(w)
      /\ \A i \in 1 .. Len(w) : q[i] = << >>
      /\ FlattenSeq(q) = FlatTo(q)[Len(w)]
    BY InsertsMean
<1> HIDE DEF q
<1>2. \A i \in 0 + 1 .. Len(w) : q[i] = << >>
    BY <1>1
<1>3. FlatTo(q)[Len(w)] = FlatTo(q)[0]
    BY <1>0, <1>1, <1>2, NothingAdded
<1>4. FlatTo(q)[0] = << >>
    BY <1>1, FlatToMeans
<1> QED
    BY <1>1, <1>3, <1>4 DEF q

\* The edit i is added to J, which makes K, and comes before the others of its offset.
ListedFirst(f, J, K, i, n) ==
    i \notin J /\ K = J \cup {i} /\ \A h \in 1 .. n : h \in J /\ f[h] = f[i] => i < h

\* An edit that comes before the others of its offset puts its text before theirs.
LEMMA InsertsFirst ==
    ASSUME NEW w \in Seq(Text), NEW f, NEW J, NEW i \in 1 .. Len(w), NEW K,
           ListedFirst(f, J, K, i, Len(w))
    PROVE  FlattenSeq(Inserts(w, f, K, f[i])) = w[i] \o FlattenSeq(Inserts(w, f, J, f[i]))
<1> DEFINE q == Inserts(w, f, K, f[i])
           r == Inserts(w, f, J, f[i])
           n == Len(w)
<1>00. i \notin J /\ K = J \cup {i} /\ \A h \in 1 .. n : h \in J /\ f[h] = f[i] => i < h
    BY DEF ListedFirst
<1>0. n \in Nat /\ i \in Nat /\ i - 1 \in Nat /\ i <= n /\ i - 1 <= n /\ w[i] \in Text /\ (i - 1) + 1 = i
      /\ 0 \in Nat /\ 0 <= i /\ 0 <= i - 1
    OBVIOUS
<1>1. /\ q \in Seq(Text) /\ Len(q) = n /\ FlattenSeq(q) = FlatTo(q)[n]
      /\ \A h \in 1 .. n : q[h] = IF h \in K /\ f[h] = f[i] THEN w[h] ELSE << >>
    BY InsertsMean
<1>2. /\ r \in Seq(Text) /\ Len(r) = n /\ FlattenSeq(r) = FlatTo(r)[n]
      /\ \A h \in 1 .. n : r[h] = IF h \in J /\ f[h] = f[i] THEN w[h] ELSE << >>
    BY InsertsMean
<1> HIDE DEF q, r, n
<1>3. ASSUME NEW h \in 0 + 1 .. i - 1 PROVE q[h] = << >>
    <2>1. h \in 1 .. n /\ ~(i < h) /\ h # i
        BY <1>0
    <2>2. ~(h \in K /\ f[h] = f[i])
        BY <1>00, <2>1 DEF n
    <2> QED
        BY <1>1, <2>1, <2>2
<1>4. \A h \in 0 + 1 .. i : r[h] = << >>
    BY <1>0, <1>00, <1>2 DEF n
<1>5. q[i] = w[i]
    BY <1>00, <1>1 DEF n
<1>6. \A h \in i + 1 .. n : q[h] = r[h]
    BY <1>0, <1>00, <1>1, <1>2
<1>7. FlatTo(q)[i - 1] = << >>
    <2>1. FlatTo(q)[i - 1] = FlatTo(q)[0]
        BY <1>0, <1>1, <1>3, NothingAdded
    <2> QED
        BY <1>1, <2>1, FlatToMeans
<1>8. FlatTo(r)[i] = << >>
    <2>1. FlatTo(r)[i] = FlatTo(r)[0]
        BY <1>0, <1>2, <1>4, NothingAdded
    <2> QED
        BY <1>2, <2>1, FlatToMeans
<1>9. FlatTo(q)[i] = w[i]
    <2>1. i \in 1 .. Len(q)
        BY <1>1 DEF n
    <2>2. FlatTo(q)[i] = FlatTo(q)[i - 1] \o q[i]
        BY <1>1, <2>1, FlatToMeans
    <2> QED
        BY <1>0, <1>5, <1>7, <2>2, TextsJoin
<1>10. PICK D \in Text : FlatTo(q)[n] = FlatTo(q)[i] \o D /\ FlatTo(r)[n] = FlatTo(r)[i] \o D
    <2>1. i <= Len(q) /\ Len(q) = Len(r) /\ \A h \in i + 1 .. Len(q) : q[h] = r[h]
        BY <1>0, <1>1, <1>2, <1>6
    <2>2. \E D \in Text : /\ FlatTo(q)[Len(q)] = FlatTo(q)[i] \o D
                          /\ FlatTo(r)[Len(r)] = FlatTo(r)[i] \o D
        BY <1>0, <1>1, <1>2, <2>1, TailShared
    <2> QED
        BY <1>1, <1>2, <2>2
<1>11. FlatTo(q)[n] = w[i] \o D /\ FlatTo(r)[n] = D
    BY <1>8, <1>9, <1>10, TextsJoin
<1> QED
    BY <1>1, <1>2, <1>11 DEF q, r

\* The pieces of a text under edits.
LEMMA PiecesMean ==
    ASSUME NEW t \in Text, NEW w \in Seq(Text), NEW f, NEW g, NEW J
    PROVE  /\ Pieces(t, w, f, g, J) \in Seq(Text) /\ Len(Pieces(t, w, f, g, J)) = Len(t) + 1
           /\ \A x \in 1 .. Len(t) + 1 :
                 /\ Pieces(t, w, f, g, J)[x] = Piece(t, w, f, g, J, x)
                 /\ Pieces(t, w, f, g, J)[x] \in Text
           /\ Merged(t, w, f, g, J) = FlatTo(Pieces(t, w, f, g, J))[Len(t) + 1]
           /\ Merged(t, w, f, g, J) \in Text
<1> DEFINE q == Pieces(t, w, f, g, J)
           n == Len(t) + 1
           ins(x) == FlattenSeq(Inserts(w, f, J, x - 1))
           kept(x) == IF Kept(t, f, g, J, x - 1) THEN <<t[x]>> ELSE << >>
<1>0. n \in Nat /\ Len(t) \in Nat /\ t \in Seq(STRING)
    BY DEF Text
<1>1. q = [x \in 1 .. n |-> ins(x) \o kept(x)]
    BY DEF Pieces, Piece
<1>2. ASSUME NEW x \in 1 .. n PROVE ins(x) \o kept(x) \in Text
    <2>1. ins(x) \in Text
        BY InsertsMean
    <2>2. kept(x) \in Text
        <3>1. CASE Kept(t, f, g, J, x - 1)
            <4>1. x \in 1 .. Len(t)
                BY <1>0, <3>1 DEF Kept
            <4>2. <<t[x]>> \in Text
                BY <1>0, <4>1 DEF Text
            <4> QED
                BY <3>1, <4>2
        <3>2. CASE ~Kept(t, f, g, J, x - 1)
            BY <3>2, TextsJoin
        <3> QED
            BY <3>1, <3>2
    <2> HIDE DEF ins, kept
    <2> QED
        BY <2>1, <2>2, TextsJoin
<1>3. Merged(t, w, f, g, J) = FlattenSeq(q)
    BY DEF Merged
<1> HIDE DEF q, n, ins, kept
<1>4. q \in Seq(Text) /\ Len(q) = n /\ \A x \in 1 .. n : q[x] = ins(x) \o kept(x) /\ q[x] \in Text
    BY <1>0, <1>1, <1>2
<1>5. FlattenSeq(q) = FlatTo(q)[n]
    BY <1>4, Flattened
<1>6. FlatTo(q)[n] \in Text
    <2>1. n \in 0 .. Len(q)
        BY <1>0, <1>4
    <2> QED
        BY <1>4, <2>1, FlatToMeans
<1> QED
    BY <1>3, <1>4, <1>5, <1>6 DEF q, n, ins, kept, Piece

\* Before the first of the edits the text is as it was.
LEMMA PiecesBefore ==
    ASSUME NEW t \in Text, NEW w \in Seq(Text), NEW f, NEW g, NEW J \in SUBSET (1 .. Len(w)),
           NEW k \in 0 .. Len(t), \A h \in J : f[h] \in Int /\ k <= f[h]
    PROVE  /\ \A x \in 1 .. k : Pieces(t, w, f, g, J)[x] = <<t[x]>>
           /\ FlatTo(Pieces(t, w, f, g, J))[k] = SubSeq(t, 1, k)
<1> DEFINE q == Pieces(t, w, f, g, J)
<1>0. Len(t) \in Nat /\ t \in Seq(STRING) /\ k \in Nat /\ k <= Len(t) /\ k <= Len(t) + 1
    BY DEF Text
<1>1. ASSUME NEW x \in 1 .. k
      PROVE  q[x] = <<t[x]>>
    <2>1. x \in 1 .. Len(t) + 1 /\ x \in 1 .. Len(t) /\ x - 1 < Len(t) /\ x - 1 < k
        BY <1>0
    <2>2. \A h \in J : ~(f[h] <= x - 1)
        BY <1>0, <2>1
    <2>3. Kept(t, f, g, J, x - 1)
        BY <2>1, <2>2 DEF Kept
    <2>4. FlattenSeq(Inserts(w, f, J, x - 1)) = << >>
        <3>1. \A i \in 1 .. Len(w) : ~(i \in J /\ f[i] = x - 1)
            BY <1>0, <2>2
        <3> QED
            BY <3>1, InsertsNothing
    <2>5. q[x] = << >> \o <<t[x]>>
        <3>1. q[x] = Piece(t, w, f, g, J, x)
            BY <2>1, PiecesMean
        <3> HIDE DEF q
        <3> QED
            BY <2>3, <2>4, <3>1 DEF Piece
    <2>6. <<t[x]>> \in Text
        BY <1>0, <2>1 DEF Text
    <2> QED
        BY <2>5, <2>6, TextsJoin
<1>2. q \in Seq(Text) /\ Len(q) = Len(t) + 1
    BY PiecesMean
<1> HIDE DEF q
<1>3. FlatTo(q)[k] = SubSeq(t, 1, k)
    BY <1>0, <1>1, <1>2, Letters
<1> QED
    BY <1>1, <1>3 DEF q

\* Without edits nothing changes.
LEMMA MergedNothing ==
    ASSUME NEW t \in Text, NEW w \in Seq(Text), NEW f, NEW g
    PROVE  Merged(t, w, f, g, {}) = t
<1> DEFINE q == Pieces(t, w, f, g, {})
           n == Len(t)
<1>0. n \in Nat /\ t \in Seq(STRING) /\ n \in 0 .. n /\ n + 1 \in 1 .. n + 1 /\ (n + 1) - 1 = n
    BY DEF Text
<1>1. FlatTo(q)[n] = SubSeq(t, 1, n)
    BY <1>0, PiecesBefore
<1>2. SubSeq(t, 1, n) = t
    BY <1>0, SubSeqFull
<1>3. ~Kept(t, f, g, {}, n)
    BY <1>0 DEF Kept
<1>4. FlattenSeq(Inserts(w, f, {}, n)) = << >>
    BY InsertsNothing
<1>5. q[n + 1] = << >> \o << >>
    <2>1. \A x \in 1 .. n + 1 : q[x] = Piece(t, w, f, g, {}, x)
        BY PiecesMean
    <2> HIDE DEF q
    <2>2. q[n + 1] = FlattenSeq(Inserts(w, f, {}, (n + 1) - 1))
                     \o (IF Kept(t, f, g, {}, (n + 1) - 1) THEN <<t[n + 1]>> ELSE << >>)
        BY <1>0, <2>1 DEF Piece
    <2> QED
        BY <1>0, <1>3, <1>4, <2>2
<1>6. q \in Seq(Text) /\ Len(q) = n + 1 /\ Merged(t, w, f, g, {}) = FlatTo(q)[n + 1]
    BY PiecesMean
<1> HIDE DEF q
<1>7. FlatTo(q)[n + 1] = FlatTo(q)[(n + 1) - 1] \o q[n + 1]
    BY <1>0, <1>6, FlatToMeans
<1>8. q[n + 1] = << >>
    BY <1>5, TextsJoin
<1> QED
    BY <1>0, <1>1, <1>2, <1>6, <1>7, <1>8, TextsJoin

\* v begins with the first k characters of t.
Begins(v, t, k) == \E D \in Text : v = SubSeq(t, 1, k) \o D

\* Before the first of the edits the changed text is as the text was.
LEMMA MergedBefore ==
    ASSUME NEW t \in Text, NEW w \in Seq(Text), NEW f, NEW g, NEW J \in SUBSET (1 .. Len(w)),
           NEW k \in 0 .. Len(t), \A h \in J : f[h] \in Int /\ k <= f[h]
    PROVE  Begins(Merged(t, w, f, g, J), t, k)
<1> DEFINE q == Pieces(t, w, f, g, J)
<1>0. Len(t) \in Nat /\ k \in Nat /\ k <= Len(t) + 1
    BY DEF Text
<1>1. q \in Seq(Text) /\ Len(q) = Len(t) + 1 /\ Merged(t, w, f, g, J) = FlatTo(q)[Len(q)]
    BY PiecesMean
<1>2. FlatTo(q)[k] = SubSeq(t, 1, k)
    BY PiecesBefore
<1> HIDE DEF q
<1>3. \E D \in Text : FlatTo(q)[Len(q)] = FlatTo(q)[k] \o D
    <2>1. \E D \in Text : /\ FlatTo(q)[Len(q)] = FlatTo(q)[k] \o D
                          /\ FlatTo(q)[Len(q)] = FlatTo(q)[k] \o D
        BY <1>0, <1>1, TailShared
    <2> QED
        BY <2>1
<1> QED
    BY <1>1, <1>2, <1>3 DEF Begins

\* The edit i, which replaces what lies between a and b, is in front of the edits J
\* and, at the place of some, before those in the array; K are all of them.
Ahead(f, g, J, K, i, a, b) ==
    /\ i \notin J /\ K = J \cup {i} /\ a = f[i] /\ b = g[i] /\ a <= b
    /\ \A h \in J : f[h] \in Int /\ b <= f[h] /\ (f[h] = a => i < h)

\* With the edit i as well, only the pieces of its range are others.
Changed(t, w, f, g, J, K, i, a, b) ==
    /\ \A x \in 1 .. Len(t) + 1 :
          a < x - 1 /\ b <= x - 1 => Pieces(t, w, f, g, K)[x] = Pieces(t, w, f, g, J)[x]
    /\ \A x \in 1 .. Len(t) + 1 : a < x - 1 /\ x - 1 < b => Pieces(t, w, f, g, K)[x] = << >>
    /\ a < b => Pieces(t, w, f, g, K)[a + 1] = w[i]
    /\ a = b => Pieces(t, w, f, g, K)[a + 1] = w[i] \o Pieces(t, w, f, g, J)[a + 1]

\* One more edit, in front of the others, changes only the pieces of its range.
LEMMA PiecesChange ==
    ASSUME NEW t \in Text, NEW w \in Seq(Text), NEW f, NEW g, NEW J \in SUBSET (1 .. Len(w)),
           NEW i \in 1 .. Len(w), NEW K, NEW a \in 0 .. Len(t), NEW b \in 0 .. Len(t),
           Ahead(f, g, J, K, i, a, b)
    PROVE  Changed(t, w, f, g, J, K, i, a, b)
<1> DEFINE q == Pieces(t, w, f, g, J)
           r == Pieces(t, w, f, g, K)
           n == Len(t)
           ins(x) == FlattenSeq(Inserts(w, f, J, x - 1))
           inr(x) == FlattenSeq(Inserts(w, f, K, x - 1))
           keq(x) == IF Kept(t, f, g, J, x - 1) THEN <<t[x]>> ELSE << >>
           ker(x) == IF Kept(t, f, g, K, x - 1) THEN <<t[x]>> ELSE << >>
<1>00. /\ i \notin J /\ K = J \cup {i} /\ a = f[i] /\ b = g[i] /\ a <= b
       /\ \A h \in J : f[h] \in Int /\ b <= f[h] /\ (f[h] = a => i < h)
    BY DEF Ahead
<1>0. n \in Nat /\ a \in Nat /\ b \in Nat /\ a <= b /\ b <= n /\ w[i] \in Text
      /\ a + 1 \in 1 .. n + 1 /\ (a + 1) - 1 = a
    BY <1>00, SMTT(30) DEF Text
<1>1. \A x \in 1 .. n + 1 : q[x] = ins(x) \o keq(x)
    <2>1. \A x \in 1 .. n + 1 : q[x] = Piece(t, w, f, g, J, x)
        BY PiecesMean
    <2> QED
        BY <2>1 DEF Piece
<1>2. \A x \in 1 .. n + 1 : r[x] = inr(x) \o ker(x)
    <2>1. \A x \in 1 .. n + 1 : r[x] = Piece(t, w, f, g, K, x)
        BY PiecesMean
    <2> QED
        BY <2>1 DEF Piece
<1>3. \A x \in 1 .. n + 1 : ins(x) \in Text
    BY InsertsMean
<1>4. ASSUME NEW x \in 1 .. n + 1, a # x - 1
      PROVE  inr(x) = ins(x)
    <2>1. Inserts(w, f, K, x - 1) = Inserts(w, f, J, x - 1)
        BY <1>00, <1>4 DEF Inserts
    <2> QED
        BY <2>1
<1>5. ASSUME NEW x \in 1 .. n + 1, b <= x - 1
      PROVE  ker(x) = keq(x)
    <2>1. Kept(t, f, g, K, x - 1) <=> Kept(t, f, g, J, x - 1)
        BY <1>0, <1>00, <1>5 DEF Kept
    <2> QED
        BY <2>1
<1>6. ASSUME NEW x \in 1 .. n + 1, a <= x - 1, x - 1 < b
      PROVE  ker(x) = << >> /\ ins(x) = << >>
    <2>1. ~Kept(t, f, g, K, x - 1)
        BY <1>0, <1>00, <1>6 DEF Kept
    <2>2. \A h \in 1 .. Len(w) : ~(h \in J /\ f[h] = x - 1)
        BY <1>0, <1>00, <1>6
    <2>3. ins(x) = << >>
        BY <2>2, InsertsNothing
    <2> QED
        BY <2>1, <2>3
<1>7. inr(a + 1) = w[i] \o ins(a + 1)
    <2>1. \A h \in 1 .. Len(w) : h \in J /\ f[h] = f[i] => i < h
        BY <1>00
    <2>2. FlattenSeq(Inserts(w, f, K, f[i])) = w[i] \o FlattenSeq(Inserts(w, f, J, f[i]))
        <3>1. ListedFirst(f, J, K, i, Len(w))
            BY <1>00, <2>1 DEF ListedFirst
        <3> QED
            BY <3>1, InsertsFirst
    <2> QED
        BY <1>0, <1>00, <2>2
<1>8. \A x \in 1 .. n + 1 : keq(x) \in Text
    <2> SUFFICES ASSUME NEW x \in 1 .. n + 1, Kept(t, f, g, J, x - 1) PROVE <<t[x]>> \in Text
        BY TextsJoin
    <2>1. x \in 1 .. Len(t)
        BY <1>0 DEF Kept
    <2> QED
        BY <2>1 DEF Text
<1> HIDE DEF ins, inr, keq, ker, n, q, r
<1>9. ASSUME NEW x \in 1 .. n + 1, a < x - 1, b <= x - 1 PROVE r[x] = q[x]
    <2>1. a # x - 1
        BY <1>0, <1>9
    <2>2. inr(x) = ins(x) /\ ker(x) = keq(x)
        BY <1>4, <1>5, <1>9, <2>1
    <2> QED
        BY <1>1, <1>2, <2>2
<1>10. ASSUME NEW x \in 1 .. n + 1, a < x - 1, x - 1 < b PROVE r[x] = << >>
    <2>1. a # x - 1 /\ a <= x - 1
        BY <1>0, <1>10
    <2>2. inr(x) = << >> /\ ker(x) = << >>
        BY <1>4, <1>6, <1>10, <2>1
    <2>3. r[x] = << >> \o << >>
        BY <1>2, <2>2
    <2> QED
        BY <2>3, TextsJoin
<1>11. ASSUME a < b PROVE r[a + 1] = w[i]
    <2>1. ker(a + 1) = << >> /\ ins(a + 1) = << >>
        BY <1>0, <1>6, <1>11
    <2>2. r[a + 1] = (w[i] \o << >>) \o << >>
        BY <1>0, <1>2, <1>7, <2>1
    <2> QED
        BY <1>0, <2>2, TextsJoin
<1>12. ASSUME a = b PROVE r[a + 1] = w[i] \o q[a + 1]
    <2>1. ker(a + 1) = keq(a + 1)
        BY <1>0, <1>5, <1>12
    <2>2. r[a + 1] = (w[i] \o ins(a + 1)) \o keq(a + 1) /\ q[a + 1] = ins(a + 1) \o keq(a + 1)
        BY <1>0, <1>1, <1>2, <1>7, <2>1
    <2> DEFINE l == w[i]
               m == ins(a + 1)
               c == keq(a + 1)
    <2>3. l \in Text /\ m \in Text /\ c \in Text
        BY <1>0, <1>3, <1>8
    <2> HIDE DEF l, m, c
    <2>4. (l \o m) \o c = l \o (m \o c)
        BY <2>3, TextsJoin
    <2> QED
        BY <2>2, <2>4 DEF l, m, c
<1> QED
    BY <1>9, <1>10, <1>11, <1>12 DEF n, q, r, Changed

\* v with u in the place of what lies between a and b.
Spliced(v, a, b, u) == SubSeq(v, 1, a) \o u \o SubSeq(v, b + 1, Len(v))

\* Applying an edit that lies before all others of a set, or at the place of some
\* that follow it in the array, to the text those make is applying it with them.
LEMMA MergedStep ==
    ASSUME NEW t \in Text, NEW w \in Seq(Text), NEW f, NEW g, NEW J \in SUBSET (1 .. Len(w)),
           NEW i \in 1 .. Len(w), NEW K, NEW a \in 0 .. Len(t), NEW b \in 0 .. Len(t),
           Ahead(f, g, J, K, i, a, b)
    PROVE  Spliced(Merged(t, w, f, g, J), a, b, w[i]) = Merged(t, w, f, g, K)
<1> DEFINE v == Merged(t, w, f, g, J)
           n == Len(t)
           q == Pieces(t, w, f, g, J)
           r == Pieces(t, w, f, g, K)
           N == n + 1
<1>11. v = Merged(t, w, f, g, J)
    OBVIOUS
<1> HIDE DEF v
<1>00. /\ i \notin J /\ K = J \cup {i} /\ a = f[i] /\ b = g[i] /\ a <= b
       /\ \A h \in J : f[h] \in Int /\ b <= f[h] /\ (f[h] = a => i < h)
    BY DEF Ahead
<1>01. n \in Nat /\ t \in Seq(STRING) /\ w[i] \in Text
    BY DEF Text
<1>0. n \in Nat /\ N \in Nat /\ a \in Nat /\ b \in Nat /\ a <= b /\ b <= n /\ w[i] \in Text
      /\ a + 1 \in 1 .. N /\ (a + 1) - 1 = a /\ a \in 0 .. n /\ b \in 0 .. n /\ a <= N /\ b <= N
      /\ a + 1 \in Nat /\ a + 1 <= N /\ t \in Seq(STRING)
    BY <1>00, <1>01
<1>1. q \in Seq(Text) /\ Len(q) = N /\ Merged(t, w, f, g, J) = FlatTo(q)[N]
      /\ \A x \in 1 .. N : q[x] \in Text
    BY PiecesMean
<1>2. r \in Seq(Text) /\ Len(r) = N /\ Merged(t, w, f, g, K) = FlatTo(r)[N]
    <2> HIDE DEF q
    <2> QED
        BY PiecesMean
<1>3. /\ \A x \in 1 .. N : a < x - 1 /\ b <= x - 1 => r[x] = q[x]
      /\ \A x \in 1 .. N : a < x - 1 /\ x - 1 < b => r[x] = << >>
      /\ a < b => r[a + 1] = w[i]
      /\ a = b => r[a + 1] = w[i] \o q[a + 1]
    <2>1. Changed(t, w, f, g, J, K, i, a, b)
        BY PiecesChange
    <2> QED
        BY <2>1 DEF Changed
<1>4. FlatTo(r)[a] = SubSeq(t, 1, a)
    <2>1. K \in SUBSET (1 .. Len(w))
        BY <1>00
    <2>2. ASSUME NEW h \in K PROVE f[h] \in Int /\ a <= f[h]
        <3>1. h \in J \/ h = i
            BY <1>00
        <3>2. h \in J => f[h] \in Int /\ b <= f[h]
            BY <1>00
        <3> QED
            BY <1>0, <1>00, <3>1, <3>2, SMTT(30)
    <2> HIDE DEF q
    <2> QED
        BY <1>0, <2>1, <2>2, PiecesBefore
<1>5. FlatTo(q)[a] = SubSeq(t, 1, a) /\ FlatTo(q)[b] = SubSeq(t, 1, b)
    <2>1. \A h \in J : f[h] \in Int /\ a <= f[h]
        BY <1>0, <1>00
    <2>2. FlatTo(q)[a] = SubSeq(t, 1, a)
        <3>1. t \in Text /\ w \in Seq(Text) /\ J \in SUBSET (1 .. Len(w)) /\ a \in 0 .. Len(t)
            OBVIOUS
        <3> HIDE DEF n, N, r
        <3> QED
            BY <2>1, <3>1, PiecesBefore
    <2>3. FlatTo(q)[b] = SubSeq(t, 1, b)
        <3>1. \A h \in J : f[h] \in Int /\ b <= f[h]
            BY <1>00
        <3>2. t \in Text /\ w \in Seq(Text) /\ J \in SUBSET (1 .. Len(w)) /\ b \in 0 .. Len(t)
            OBVIOUS
        <3> HIDE DEF n, N, r
        <3> QED
            BY <3>1, <3>2, PiecesBefore
    <2> HIDE DEF q
    <2> QED
        BY <2>2, <2>3
<1>6. SubSeq(t, 1, a) \in Text
    <2>1. K \in SUBSET (1 .. Len(w))
        BY <1>00
    <2> HIDE DEF r
    <2>2. a \in 0 .. Len(r)
        BY <1>0, <1>2
    <2> QED
        BY <1>2, <1>4, <2>2, FlatToMeans
<1> HIDE DEF q, r
<1>7. \A c \in a .. b : SubSeq(t, c + 1, c) = << >>
    BY <1>0, SubSeqEmpty
<1>8. ASSUME a < b
      PROVE  SubSeq(v, 1, a) \o w[i] \o SubSeq(v, b + 1, Len(v)) = Merged(t, w, f, g, K)
    <2>1. FlatTo(r)[a + 1] = SubSeq(t, 1, a) \o w[i]
        <3>1. a + 1 \in 1 .. Len(r)
            BY <1>0, <1>2
        <3>2. FlatTo(r)[a + 1] = FlatTo(r)[(a + 1) - 1] \o r[a + 1]
            BY <1>2, <3>1, FlatToMeans
        <3> QED
            BY <1>0, <1>3, <1>4, <1>8, <3>2
    <2>2. FlatTo(r)[b] = FlatTo(r)[a + 1]
        <3>1. ASSUME NEW x \in (a + 1) + 1 .. b PROVE r[x] = << >>
            <4>1. x \in Int /\ (a + 1) + 1 <= x /\ x <= b
                BY <1>0
            <4>2. x \in 1 .. N /\ a < x - 1 /\ x - 1 < b
                BY <1>0, <4>1
            <4> QED
                BY <1>3, <4>2
        <3>2. a + 1 <= b /\ b <= Len(r)
            BY <1>0, <1>2, <1>8
        <3> QED
            BY <1>0, <1>2, <3>1, <3>2, NothingAdded
    <2>3. \A x \in b + 1 .. N : r[x] = q[x]
        <3>1. ASSUME NEW x \in b + 1 .. N PROVE r[x] = q[x]
            <4>1. x \in 1 .. N /\ a < x - 1 /\ b <= x - 1
                BY <1>0, <1>8
            <4> QED
                BY <1>3, <4>1
        <3> QED
            BY <3>1
    <2>4. PICK D \in Text : FlatTo(q)[N] = FlatTo(q)[b] \o D /\ FlatTo(r)[N] = FlatTo(r)[b] \o D
        <3>1. \A x \in b + 1 .. Len(q) : q[x] = r[x]
            BY <1>1, <2>3
        <3>2. \E D \in Text : /\ FlatTo(q)[Len(q)] = FlatTo(q)[b] \o D
                              /\ FlatTo(r)[Len(r)] = FlatTo(r)[b] \o D
            <4>1. Len(q) = Len(r) /\ b \in Nat /\ b <= Len(q)
                BY <1>0, <1>1, <1>2
            <4> QED
                BY <1>1, <1>2, <3>1, <4>1, TailShared
        <3> QED
            BY <1>1, <1>2, <3>2
    <2>5. v = SubSeq(t, 1, b) \o D /\ Merged(t, w, f, g, K) = (SubSeq(t, 1, a) \o w[i]) \o D
        BY <1>1, <1>2, <1>5, <1>11, <2>1, <2>2, <2>4
    <2>6. a \in 0 .. b /\ b \in 0 .. b
        BY <1>0
    <2>7. SubSeq(v, 1, a) = SubSeq(t, 1, a) /\ SubSeq(v, b + 1, Len(v)) = SubSeq(t, b + 1, b) \o D
        <3>1. b \in 0 .. Len(t) /\ t \in Text /\ D \in Text
            OBVIOUS
        <3> QED
            <4>1. Halves(t, D, b, a, b)
                BY <2>6, <3>1, Around
            <4> QED
                BY <2>5, <4>1 DEF Halves
    <2>8. SubSeq(v, b + 1, Len(v)) = D
        <3>1. SubSeq(t, b + 1, b) = << >>
            BY <1>0, <1>7
        <3> QED
            BY <2>7, <3>1, TextsJoin
    <2> QED
        BY <2>5, <2>7, <2>8
<1>9. ASSUME a = b
      PROVE  SubSeq(v, 1, a) \o w[i] \o SubSeq(v, b + 1, Len(v)) = Merged(t, w, f, g, K)
    <2>1. q[a + 1] \in Text /\ r[a + 1] = w[i] \o q[a + 1]
        BY <1>0, <1>1, <1>3, <1>9
    <2>2. FlatTo(r)[a + 1] = SubSeq(t, 1, a) \o (w[i] \o q[a + 1])
        <3>1. a + 1 \in 1 .. Len(r)
            BY <1>0, <1>2
        <3>2. FlatTo(r)[a + 1] = FlatTo(r)[(a + 1) - 1] \o r[a + 1]
            BY <1>2, <3>1, FlatToMeans
        <3> QED
            BY <1>0, <1>4, <2>1, <3>2
    <2>3. FlatTo(q)[a + 1] = SubSeq(t, 1, a) \o q[a + 1]
        <3>1. a + 1 \in 1 .. Len(q)
            BY <1>0, <1>1
        <3>2. FlatTo(q)[a + 1] = FlatTo(q)[(a + 1) - 1] \o q[a + 1]
            BY <1>1, <3>1, FlatToMeans
        <3> QED
            BY <1>0, <1>5, <3>2
    <2>4. ASSUME NEW x \in (a + 1) + 1 .. N PROVE q[x] = r[x]
        <3>1. x \in 1 .. N /\ a < x - 1 /\ b <= x - 1
            BY <1>0, <1>9
        <3> QED
            BY <1>3, <3>1
    <2>5. PICK E \in Text : FlatTo(q)[N] = FlatTo(q)[a + 1] \o E /\ FlatTo(r)[N] = FlatTo(r)[a + 1] \o E
        <3>1. \A x \in (a + 1) + 1 .. Len(q) : q[x] = r[x]
            BY <1>1, <2>4
        <3>3. a + 1 <= Len(q) /\ Len(q) = Len(r)
            BY <1>0, <1>1, <1>2
        <3>2. \E E \in Text : /\ FlatTo(q)[Len(q)] = FlatTo(q)[a + 1] \o E
                              /\ FlatTo(r)[Len(r)] = FlatTo(r)[a + 1] \o E
            BY <1>0, <1>1, <1>2, <3>1, <3>3, TailShared
        <3> QED
            BY <1>1, <1>2, <3>2
    <2> DEFINE h == SubSeq(t, 1, a)
               p == q[a + 1]
               D == p \o E
               l == w[i]
    <2>6. h \in Text /\ p \in Text /\ l \in Text
        BY <1>0, <1>6, <2>1
    <2>7. v = (h \o p) \o E /\ Merged(t, w, f, g, K) = (h \o (l \o p)) \o E
        BY <1>1, <1>2, <1>11, <2>2, <2>3, <2>5
    <2> HIDE DEF h, p, l
    <2>8. D \in Text /\ v = h \o D
        BY <2>6, <2>7, TextsJoin
    <2>9. Merged(t, w, f, g, K) = (h \o l) \o D
        <3>0. l \o p \in Text
            BY <2>6, TextsJoin
        <3>1. (l \o p) \o E = l \o D
            <4>1. Associate(l, p, E)
                BY <2>6, TextsAssociate
            <4> QED
                BY <4>1 DEF Associate, D
        <3>4. (h \o (l \o p)) \o E = h \o ((l \o p) \o E)
            <4> DEFINE m == l \o p
            <4> HIDE DEF m
            <4>1. m \in Text
                BY <3>0 DEF m
            <4>2. (h \o m) \o E = h \o (m \o E)
                <5>1. Associate(h, m, E)
                    BY <2>6, <4>1, TextsAssociate
                <5> QED
                    BY <5>1 DEF Associate
            <4> QED
                BY <4>2 DEF m
        <3>2. h \o (l \o D) = (h \o l) \o D
            <4> HIDE DEF D
            <4>1. Associate(h, l, D)
                BY <2>6, <2>8, TextsAssociate
            <4> QED
                BY <4>1 DEF Associate
        <3> QED
            BY <2>7, <3>1, <3>2, <3>4
    <2> HIDE DEF D
    <2>10. a \in 0 .. a
        BY <1>0
    <2>11. SubSeq(v, 1, a) = SubSeq(t, 1, a) /\ SubSeq(v, a + 1, Len(v)) = SubSeq(t, a + 1, a) \o D
        <3>1. a \in 0 .. Len(t) /\ t \in Text /\ D \in Text /\ v = SubSeq(t, 1, a) \o D
            BY <2>8 DEF h
        <3> QED
            <4>1. Halves(t, D, a, a, a)
                BY <2>10, <3>1, Around
            <4> QED
                BY <3>1, <4>1 DEF Halves
    <2>12. SubSeq(v, a + 1, Len(v)) = D
        <3>1. SubSeq(t, a + 1, a) = << >>
            BY <1>0, <1>7
        <3> QED
            BY <2>8, <2>11, <3>1, TextsJoin
    <2> QED
        BY <1>9, <2>9, <2>11, <2>12 DEF h, l
<1> QED
    <2>1. a < b \/ a = b
        BY <1>0
    <2>2. SubSeq(v, 1, a) \o w[i] \o SubSeq(v, b + 1, Len(v)) = Merged(t, w, f, g, K)
        BY <1>8, <1>9, <2>1
    <2> QED
        BY <2>2 DEF Spliced, v

(* --------------------------- one edit at a time --------------------------- *)

\* The texts t and v begin alike up to k.
Alike(t, v, k) == k \in Nat /\ k <= Len(t) /\ k <= Len(v) /\ \A x \in 1 .. k : v[x] = t[x]
\* A position up to k is the same offset in v and in t; one that is not after k
\* resolves up to k.
Shares(t, v, k, pos) ==
    /\ PlaceOf(t, pos) \in 0 .. k => Offset(v, pos) = PlaceOf(t, pos)
    /\ Offset(v, pos) \in 0 .. k => PlaceOf(t, pos) = Offset(v, pos)
    /\ Offset(v, pos) >= 0 /\ ~PositionLess(PositionOf(t, k), pos) => Offset(v, pos) <= k

\* Resolving a position against a text whose beginning is as it was.
LEMMA Resolving ==
    ASSUME NEW t \in Text, NEW v \in Text, NEW k, Alike(t, v, k), NEW pos \in Place
    PROVE  Shares(t, v, k, pos)
<1> DEFINE o == PlaceOf(t, pos)
           u == Offset(v, pos)
<1>0. /\ k \in Nat /\ k <= Len(t) /\ k <= Len(v) /\ \A x \in 1 .. k : v[x] = t[x]
      /\ Len(t) \in Nat /\ Len(v) \in Nat /\ t \in Seq(STRING) /\ v \in Seq(STRING)
    BY DEF Alike, Text
<1>1. /\ o \in -1 .. Len(t) /\ (o >= 0 => PositionOf(t, o) = pos)
      /\ \A x \in 0 .. Len(t) : PositionOf(t, x) = pos => o = x
    BY <1>0, PlaceMeans
<1>2. /\ u = -1 \/ (u \in 0 .. Len(v) /\ PositionOf(v, u) = pos)
      /\ \A x \in 0 .. Len(v) : PositionOf(v, x) = pos => u = x
    BY <1>0, OffsetMeans
<1> HIDE DEF o, u
<1>3. ASSUME NEW x \in 0 .. k PROVE PositionOf(t, x) = PositionOf(v, x)
    <2>1. x \in Nat /\ \A y \in 1 .. x : t[y] = v[y]
        BY <1>0
    <2> QED
        BY <2>1, PositionsShared
<1>4. ASSUME o \in 0 .. k PROVE u = o
    <2>1. o \in 0 .. Len(v) /\ o >= 0
        BY <1>0, <1>4
    <2>2. PositionOf(v, o) = pos
        BY <1>1, <1>3, <1>4, <2>1
    <2> QED
        BY <1>2, <2>1, <2>2
<1>5. ASSUME u \in 0 .. k PROVE o = u
    <2>1. u \in 0 .. Len(t) /\ u # -1
        BY <1>0, <1>5
    <2>2. PositionOf(t, u) = pos
        BY <1>2, <1>3, <1>5, <2>1
    <2> QED
        BY <1>1, <2>1, <2>2
<1>6. ASSUME u >= 0, ~PositionLess(PositionOf(t, k), pos) PROVE u <= k
    <2>1. u \in 0 .. Len(v) /\ PositionOf(v, u) = pos
        BY <1>2, <1>6
    <2>2. k \in 0 .. k /\ u \in Nat
        BY <1>0, <2>1
    <2>3. PositionOf(t, k) = PositionOf(v, k)
        BY <1>3, <2>2
    <2>4. ~PositionLess(PositionOf(v, k), PositionOf(v, u))
        BY <1>6, <2>1, <2>3
    <2>5. ~(k < u)
        BY <1>0, <2>2, <2>4, PositionsTell
    <2> QED
        BY <1>0, <2>2, <2>5
<1> QED
    BY <1>4, <1>5, <1>6 DEF Shares, o, u

\* The parts of a text are texts.
LEMMA PartsAreTexts ==
    ASSUME NEW t \in Text, NEW a \in 0 .. Len(t), NEW b \in 0 .. Len(t)
    PROVE  SubSeq(t, 1, a) \in Text /\ SubSeq(t, b + 1, Len(t)) \in Text
<1>0. t \in Seq(STRING) /\ Len(t) \in Nat
    BY DEF Text
<1>1. /\ \A x \in 1 .. a : t[x] \in STRING
      /\ \A x \in b + 1 .. Len(t) : t[x] \in STRING
      /\ 1 \in Int /\ a \in Int /\ b + 1 \in Int
    BY <1>0
<1>2. SubSeq(t, 1, a) \in Seq(STRING)
    BY <1>1, SubSeqProperties
<1>3. SubSeq(t, b + 1, Len(t)) \in Seq(STRING)
    BY <1>0, <1>1, SubSeqProperties
<1> QED
    BY <1>2, <1>3 DEF Text

\* What applying leaves: a text, and whether all edits so far could be applied.
Outcomes == [ok : BOOLEAN, text : Text]

\* Applying an edit leaves a text.
LEMMA AppliesOne ==
    ASSUME NEW acc \in Outcomes, NEW x, x.edit \in Edits
    PROVE  ApplyOne(acc, x) \in Outcomes
<1>1. acc.text \in Text /\ x.edit.start \in Place /\ x.edit.end \in Place /\ x.edit.newText \in Text
    BY DEF Outcomes, Edits, Text
<1>2. CASE acc.ok /\ InRange(acc.text, x.edit)
    <2> DEFINE t == acc.text
               a == Offset(t, x.edit.start)
               b == Offset(t, x.edit.end)
    <2>1. a >= 0 /\ a <= b
        BY <1>2 DEF InRange
    <2>2. (a = -1 \/ a \in 0 .. Len(t)) /\ (b = -1 \/ b \in 0 .. Len(t)) /\ Len(t) \in Nat
        BY <1>1, OffsetMeans DEF Text
    <2>3. a \in 0 .. Len(t) /\ b \in 0 .. Len(t)
        BY <2>1, <2>2
    <2>4. Splice(t, x.edit) = SubSeq(t, 1, a) \o x.edit.newText \o SubSeq(t, b + 1, Len(t))
        BY DEF Splice
    <2>5. SubSeq(t, 1, a) \in Text /\ SubSeq(t, b + 1, Len(t)) \in Text
        <3> HIDE DEF t, a, b
        <3> QED
            BY <1>1, <2>3, PartsAreTexts DEF t
    <2>6. Splice(t, x.edit) \in Text
        <3> HIDE DEF a, b
        <3> QED
            BY <1>1, <2>4, <2>5, TextsJoin
    <2> QED
        BY <1>2, <2>6 DEF ApplyOne, Outcomes
<1>3. CASE ~(acc.ok /\ InRange(acc.text, x.edit))
    BY <1>1, <1>3 DEF ApplyOne, Rejected, Outcomes
<1> QED
    BY <1>2, <1>3

\* after is what the first edits of s make of t, one after the other.
Follows(after, t, s) ==
    /\ after[0] = [ok |-> TRUE, text |-> t]
    /\ \A m \in 1 .. Len(s) : after[m] = ApplyOne(after[m - 1], s[m])

\* The recursion that applies the edits.
LEMMA PartlyMeans ==
    ASSUME NEW t \in Text, NEW s, Len(s) \in Nat, \A m \in 1 .. Len(s) : s[m].edit \in Edits
    PROVE  Follows(Partly(t, s), t, s)
<1> DEFINE n == Len(s)
           b == [ok |-> TRUE, text |-> t]
           F == [m \in 1 .. n |-> [v \in Outcomes |-> ApplyOne(v, s[m])]]
           Body(f) == [m \in 0 .. n |-> IF m = 0 THEN b ELSE ApplyOne(f[m - 1], s[m])]
           G == Partly(t, s)
<1>0. n \in Nat
    OBVIOUS
<1>1. F \in [1 .. n -> [Outcomes -> Outcomes]]
    <2>1. ASSUME NEW m \in 1 .. n, NEW v \in Outcomes PROVE ApplyOne(v, s[m]) \in Outcomes
        BY AppliesOne
    <2> QED
        BY <2>1
<1>2. b \in Outcomes
    BY DEF Outcomes
<1>3. \A m \in 1 .. n : \A v \in Outcomes : F[m][v] = ApplyOne(v, s[m])
    OBVIOUS
<1>4. G = CHOOSE f : f = Body(f)
    BY DEF Partly
<1> HIDE DEF n, b, F
<1>5. \E f : f = Body(f)
    <2>9. \E f : Solves(f, n, Outcomes, b, F)
        BY <1>0, <1>1, <1>2, Recursion
    <2>1. PICK f : Solves(f, n, Outcomes, b, F)
        BY <2>9
    <2>2. f \in [0 .. n -> Outcomes] /\ f[0] = b /\ \A m \in 1 .. n : f[m] = F[m][f[m - 1]]
        BY <2>1 DEF Solves
    <2>3. ASSUME NEW m \in 0 .. n PROVE f[m] = IF m = 0 THEN b ELSE ApplyOne(f[m - 1], s[m])
        <3>1. CASE m = 0
            BY <2>2, <3>1
        <3>2. CASE m # 0
            <4>1. m \in 1 .. n /\ m - 1 \in 0 .. n
                BY <1>0, <3>2
            <4>2. f[m - 1] \in Outcomes
                BY <2>2, <4>1
            <4> QED
                BY <1>3, <2>2, <3>2, <4>1, <4>2
        <3> QED
            BY <3>1, <3>2
    <2>4. f = [m \in 0 .. n |-> f[m]]
        BY <2>2
    <2>5. f = Body(f)
        BY <2>3, <2>4
    <2> QED
        BY <2>5
<1> HIDE DEF G
<1>6. G = Body(G)
    BY <1>4, <1>5
<1>7. G[0] = b
    BY <1>0, <1>6
<1>8. ASSUME NEW m \in 1 .. n PROVE G[m] = ApplyOne(G[m - 1], s[m])
    <2>1. m \in 0 .. n /\ m # 0
        BY <1>0
    <2> QED
        BY <1>6, <2>1
<1> QED
    BY <1>7, <1>8 DEF Follows, n, b, G

\* s are the edits of the list in the order p, w their new texts, and what lies
\* between f and g what they replace in t.
Setting(t, list, p, s, w, f, g) ==
    /\ t \in Text /\ list \in Seq(Edits)
    /\ Lists(p, LaterFirstIn(list), Len(list))
    /\ s = [m \in 1 .. Len(list) |-> Indexed(list)[p[m]]]
    /\ w = [i \in 1 .. Len(list) |-> list[i].newText]
    /\ f = [i \in 1 .. Len(list) |-> PlaceOf(t, list[i].start)]
    /\ g = [i \in 1 .. Len(list) |-> PlaceOf(t, list[i].end)]

\* What that says.
Known(t, list, p, s, w, f, g) ==
    /\ Len(list) \in Nat /\ Len(s) = Len(list) /\ Len(t) \in Nat
    /\ w \in Seq(Text) /\ Len(w) = Len(list)
    /\ \A i \in 1 .. Len(list) :
          /\ list[i].start \in Place /\ list[i].end \in Place /\ list[i] \in Edits
          /\ w[i] = list[i].newText /\ w[i] \in Text
          /\ f[i] = PlaceOf(t, list[i].start) /\ f[i] \in -1 .. Len(t)
          /\ g[i] = PlaceOf(t, list[i].end) /\ g[i] \in -1 .. Len(t)
          /\ f[i] >= 0 => PositionOf(t, f[i]) = list[i].start
          /\ g[i] >= 0 => PositionOf(t, g[i]) = list[i].end
          /\ \E m \in 1 .. Len(list) : p[m] = i
    /\ \A m \in 1 .. Len(list) : p[m] \in 1 .. Len(list) /\ s[m].edit = list[p[m]]
    /\ \A m, h \in 1 .. Len(list) :
          m < h => /\ p[m] # p[h]
                   /\ \/ PositionLess(list[p[h]].start, list[p[m]].start)
                      \/ list[p[h]].start = list[p[m]].start /\ p[h] < p[m]

\* What is known of a setting.
LEMMA SettingMeans ==
    ASSUME NEW t, NEW list, NEW p, NEW s, NEW w, NEW f, NEW g, Setting(t, list, p, s, w, f, g)
    PROVE  Known(t, list, p, s, w, f, g)
<1> DEFINE n == Len(list)
           x == Indexed(list)
<1>0. /\ t \in Text /\ list \in Seq(Edits) /\ Lists(p, LaterFirstIn(list), n)
      /\ s = [m \in 1 .. n |-> x[p[m]]]
      /\ w = [i \in 1 .. n |-> list[i].newText]
      /\ f = [i \in 1 .. n |-> PlaceOf(t, list[i].start)]
      /\ g = [i \in 1 .. n |-> PlaceOf(t, list[i].end)]
    BY DEF Setting
<1>1. n \in Nat /\ Len(t) \in Nat /\ t \in Seq(STRING)
    BY <1>0 DEF Text
<1>2. \A i \in 1 .. n : /\ x[i].edit = list[i] /\ x[i].orig = i
                        /\ list[i] \in Edits /\ list[i].start \in Place /\ list[i].end \in Place
                        /\ list[i].newText \in Text
    BY <1>0, IndexedMeans DEF Text
<1>3. /\ p \in [1 .. n -> 1 .. n]
      /\ \A i \in 1 .. n : \E m \in 1 .. n : p[m] = i
      /\ \A m, h \in 1 .. n : m < h => <<p[m], p[h]>> \in LaterFirstIn(list)
    BY <1>0 DEF Lists
<1>4. \A i, h \in 1 .. n : <<i, h>> \in LaterFirstIn(list) <=> LaterFirst(x[i], x[h])
    BY DEF LaterFirstIn
<1> HIDE DEF n, x
<1>5. w \in Seq(Text) /\ Len(w) = n /\ \A i \in 1 .. n : w[i] = list[i].newText /\ w[i] \in Text
    <2>1. \A i \in 1 .. n : w[i] = list[i].newText /\ w[i] \in Text
        BY <1>0, <1>2
    <2>2. w = [i \in 1 .. n |-> w[i]]
        BY <1>0
    <2>3. w \in [1 .. n -> Text]
        BY <2>1, <2>2
    <2> QED
        BY <1>1, <2>1, <2>3
<1>6. Len(s) = n
    <2> DEFINE E == {x[p[m]] : m \in 1 .. n}
    <2>1. \A m \in 1 .. n : s[m] \in E
        BY <1>0
    <2>2. s = [m \in 1 .. n |-> s[m]]
        BY <1>0
    <2> HIDE DEF E
    <2>3. s \in [1 .. n -> E]
        BY <2>1, <2>2
    <2> QED
        BY <1>1, <2>3
<1>7. ASSUME NEW i \in 1 .. n
      PROVE  /\ f[i] = PlaceOf(t, list[i].start) /\ f[i] \in -1 .. Len(t)
             /\ g[i] = PlaceOf(t, list[i].end) /\ g[i] \in -1 .. Len(t)
             /\ f[i] >= 0 => PositionOf(t, f[i]) = list[i].start
             /\ g[i] >= 0 => PositionOf(t, g[i]) = list[i].end
    <2>1. f[i] = PlaceOf(t, list[i].start) /\ g[i] = PlaceOf(t, list[i].end)
        BY <1>0
    <2>2. list[i].start \in Place /\ list[i].end \in Place
        BY <1>2
    <2> QED
        BY <1>1, <2>1, <2>2, PlaceMeans
<1>8. \A m \in 1 .. n : p[m] \in 1 .. n /\ s[m].edit = list[p[m]]
    BY <1>0, <1>2, <1>3
<1>9. ASSUME NEW m \in 1 .. n, NEW h \in 1 .. n, m < h
      PROVE  /\ p[m] # p[h]
             /\ \/ PositionLess(list[p[h]].start, list[p[m]].start)
                \/ list[p[h]].start = list[p[m]].start /\ p[h] < p[m]
    <2>1. LaterFirst(x[p[m]], x[p[h]]) /\ p[m] \in 1 .. n /\ p[h] \in 1 .. n
        BY <1>3, <1>4, <1>8, <1>9
    <2>2. /\ \/ PositionLess(list[p[h]].start, list[p[m]].start)
             \/ list[p[m]].start = list[p[h]].start /\ p[m] > p[h]
        BY <1>2, <2>1 DEF LaterFirst
    <2>3. p[m] # p[h]
        BY <1>2, <2>1, <2>2, PlaceOrder
    <2>4. p[m] \in Int /\ p[h] \in Int
        BY <2>1
    <2> QED
        BY <2>2, <2>3, <2>4
<1> QED
    BY <1>1, <1>2, <1>3, <1>5, <1>6, <1>7, <1>8, <1>9 DEF Known, n

\* The sorted edits of a list are a setting.
LEMMA SettingExists ==
    ASSUME NEW t \in Text, NEW list \in Seq(Edits)
    PROVE  \E p, w, f, g : Setting(t, list, p, Sorted(list), w, f, g)
<1>1. PICK p : /\ Lists(p, LaterFirstIn(list), Len(list))
               /\ Sorted(list) = [m \in 1 .. Len(list) |-> Indexed(list)[p[m]]]
    BY SortedMeans
<1> DEFINE w == [i \in 1 .. Len(list) |-> list[i].newText]
           f == [i \in 1 .. Len(list) |-> PlaceOf(t, list[i].start)]
           g == [i \in 1 .. Len(list) |-> PlaceOf(t, list[i].end)]
<1>2. Setting(t, list, p, Sorted(list), w, f, g)
    BY <1>1 DEF Setting
<1> QED
    BY <1>2

(* The first j edits of a setting end each before the one ahead of it starts.   *)
Limit(t, p, f, j) == IF j = 0 THEN Len(t) ELSE f[p[j]]
EndsInTime(t, p, f, g, m) == 0 <= f[p[m]] /\ f[p[m]] <= g[p[m]] /\ g[p[m]] <= Limit(t, p, f, m - 1)
Chain(t, p, f, g, j) == \A m \in 1 .. j : EndsInTime(t, p, f, g, m)
Leading(p, j) == {p[m] : m \in 1 .. j}

\* Of a chain every edit starts where its predecessors start or before.
LEMMA ChainMeans ==
    ASSUME NEW t, NEW list, NEW p, NEW s, NEW w, NEW f, NEW g, Setting(t, list, p, s, w, f, g),
           NEW j \in 0 .. Len(list), Chain(t, p, f, g, j)
    PROVE  /\ Limit(t, p, f, j) \in 0 .. Len(t)
           /\ \A m \in 1 .. j : Limit(t, p, f, j) <= f[p[m]]
           /\ \A m, h \in 1 .. j : m < h => g[p[h]] <= f[p[m]]
<1> DEFINE n == Len(list)
           lim(x) == Limit(t, p, f, x)
<1>0. Known(t, list, p, s, w, f, g)
    BY SettingMeans
<1>1. /\ n \in Nat /\ Len(t) \in Nat
      /\ \A m \in 1 .. n : f[p[m]] \in Int /\ g[p[m]] \in Int /\ f[p[m]] <= Len(t)
    <2>1. /\ n \in Nat /\ Len(t) \in Nat
          /\ \A i \in 1 .. n : f[i] \in -1 .. Len(t) /\ g[i] \in -1 .. Len(t)
          /\ \A m \in 1 .. n : p[m] \in 1 .. n
        BY <1>0 DEF Known
    <2>2. \A m \in 1 .. n : f[p[m]] \in -1 .. Len(t) /\ g[p[m]] \in -1 .. Len(t)
        BY <2>1
    <2> QED
        BY <2>1, <2>2
<1>2. \A m \in 1 .. j : 0 <= f[p[m]] /\ f[p[m]] <= g[p[m]] /\ g[p[m]] <= lim(m - 1)
    BY DEF Chain, EndsInTime
<1>3. lim(0) = Len(t) /\ \A m \in 1 .. n : lim(m) = f[p[m]]
    BY <1>1 DEF Limit
<1> HIDE DEF lim, n
<1> DEFINE T == {i \in Nat : /\ lim(i) \in 0 .. Len(t)
                             /\ \A m \in 1 .. i : lim(i) <= f[p[m]]
                             /\ \A m, h \in 1 .. i : m < h => g[p[h]] <= f[p[m]]}
<1>4. 0 \in T
    BY <1>1, <1>3
<1>5. ASSUME NEW k \in 0 .. j - 1, k \in T PROVE k + 1 \in T
    <2>1. k \in Nat /\ k + 1 \in 1 .. j /\ k + 1 \in 1 .. n
          /\ (k + 1) - 1 = k /\ k + 1 \in Nat /\ j \in 0 .. n
        BY <1>1 DEF n
    <2>2. /\ lim(k) \in 0 .. Len(t)
          /\ \A m \in 1 .. k : lim(k) <= f[p[m]]
          /\ \A m, h \in 1 .. k : m < h => g[p[h]] <= f[p[m]]
        BY <1>5
    <2>3. 0 <= f[p[k + 1]] /\ f[p[k + 1]] <= g[p[k + 1]] /\ g[p[k + 1]] <= lim(k)
        BY <1>2, <2>1
    <2>4. lim(k + 1) = f[p[k + 1]] /\ f[p[k + 1]] \in Int /\ g[p[k + 1]] \in Int /\ f[p[k + 1]] <= Len(t)
        BY <1>1, <1>3, <2>1
    <2>5. \A m \in 1 .. k : m \in 1 .. n /\ f[p[m]] \in Int
        BY <1>1, <2>1
    <2>6. \A m \in 1 .. k + 1 : m \in 1 .. k \/ m = k + 1
        BY <2>1
    <2>7. lim(k + 1) \in 0 .. Len(t)
        BY <1>1, <2>3, <2>4
    <2>8. ASSUME NEW m \in 1 .. k + 1 PROVE lim(k + 1) <= f[p[m]]
        BY <1>1, <2>2, <2>3, <2>4, <2>5, <2>6
    <2>9. ASSUME NEW m \in 1 .. k + 1, NEW h \in 1 .. k + 1, m < h PROVE g[p[h]] <= f[p[m]]
        <3>1. m \in 1 .. k
            BY <2>1, <2>9
        <3>2. CASE h \in 1 .. k
            BY <2>2, <2>9, <3>1, <3>2
        <3>3. CASE h = k + 1
            BY <2>2, <2>3, <2>4, <2>5, <3>1, <3>3
        <3> QED
            BY <2>6, <3>2, <3>3
    <2> QED
        BY <2>1, <2>7, <2>8, <2>9
<1>6. T \in SUBSET Nat
    OBVIOUS
<1> HIDE DEF T
<1>7. j \in T
    <2>1. j \in Nat
        OBVIOUS
    <2>2. \A i \in 0 .. j : i \in T
        BY <1>4, <1>5, <1>6, <2>1, UpTo
    <2> QED
        BY <2>1, <2>2
<1> QED
    BY <1>7 DEF T, lim

\* The next edit of a chain is ahead of those before it.
LEMMA FrontAhead ==
    ASSUME NEW t, NEW list, NEW p, NEW s, NEW w, NEW f, NEW g, Setting(t, list, p, s, w, f, g),
           NEW j \in Nat, j + 1 \in 1 .. Len(list), Chain(t, p, f, g, j), EndsInTime(t, p, f, g, j + 1)
    PROVE  /\ Ahead(f, g, Leading(p, j), Leading(p, j + 1), p[j + 1], f[p[j + 1]], g[p[j + 1]])
           /\ f[p[j + 1]] \in 0 .. Len(t) /\ g[p[j + 1]] \in 0 .. Len(t)
<1> DEFINE n == Len(list)
           i == p[j + 1]
           J == Leading(p, j)
           K == Leading(p, j + 1)
           k == Limit(t, p, f, j)
<1>0. Known(t, list, p, s, w, f, g)
    BY SettingMeans
<1>1. /\ n \in Nat /\ Len(t) \in Nat
      /\ \A x \in 1 .. n : /\ list[x].start \in Place
                           /\ f[x] \in -1 .. Len(t) /\ g[x] \in -1 .. Len(t)
                           /\ (f[x] >= 0 => PositionOf(t, f[x]) = list[x].start)
    BY <1>0 DEF Known
<1>2. \A m \in 1 .. n : p[m] \in 1 .. n
    BY <1>0 DEF Known
<1>3. \A m, h \in 1 .. n :
          m < h => /\ p[m] # p[h]
                   /\ \/ PositionLess(list[p[h]].start, list[p[m]].start)
                      \/ list[p[h]].start = list[p[m]].start /\ p[h] < p[m]
    BY <1>0 DEF Known
<1>4. /\ j \in 0 .. n /\ (j + 1) - 1 = j /\ j < j + 1
      /\ \A m \in 1 .. j : m \in 1 .. n /\ m < j + 1 /\ m \in 1 .. j + 1
    BY <1>1
<1>5. k \in 0 .. Len(t) /\ \A m \in 1 .. j : k <= f[p[m]]
    BY <1>4, ChainMeans
<1>6. 0 <= f[i] /\ f[i] <= g[i] /\ g[i] <= k
    BY <1>4 DEF EndsInTime
<1>7. i \in 1 .. n /\ f[i] \in 0 .. Len(t) /\ g[i] \in 0 .. Len(t) /\ PositionOf(t, f[i]) = list[i].start
    <2>1. i \in 1 .. n
        BY <1>2
    <2>2. f[i] \in -1 .. Len(t) /\ g[i] \in -1 .. Len(t) /\ (f[i] >= 0 => PositionOf(t, f[i]) = list[i].start)
        BY <1>1, <2>1
    <2> QED
        BY <1>1, <1>6, <2>1, <2>2
<1> HIDE DEF n, k
<1>8. K = J \cup {i}
    <2>1. \A m \in 1 .. j + 1 : m \in 1 .. j \/ m = j + 1
        BY <1>4
    <2> QED
        BY <1>4, <2>1 DEF Leading
<1>9. i \notin J
    BY <1>3, <1>4 DEF Leading, n
<1>10. ASSUME NEW h \in J PROVE f[h] \in Int /\ g[i] <= f[h] /\ (f[h] = f[i] => i < h)
    <2>1. PICK m \in 1 .. j : h = p[m]
        BY DEF Leading
    <2>2. h \in 1 .. n /\ k <= f[h]
        BY <1>2, <1>4, <1>5, <2>1
    <2>3. f[h] \in -1 .. Len(t) /\ (f[h] >= 0 => PositionOf(t, f[h]) = list[h].start)
        BY <1>1, <2>2
    <2>4. f[h] \in Int /\ g[i] <= f[h] /\ f[h] >= 0
        BY <1>1, <1>5, <1>6, <1>7, <2>2, <2>3, SMTT(30)
    <2>5. ASSUME f[h] = f[i] PROVE i < h
        <3>1. list[h].start = list[i].start /\ list[h].start \in Place
            BY <1>1, <1>7, <2>2, <2>3, <2>4, <2>5
        <3>2. ~PositionLess(list[i].start, list[h].start)
            BY <3>1, PlaceOrder
        <3>3. j + 1 \in 1 .. n
            BY DEF n
        <3>4. PositionLess(list[i].start, list[h].start) \/ i < h
            BY <1>3, <1>4, <2>1, <3>3
        <3> QED
            BY <3>2, <3>4
    <2> QED
        BY <2>4, <2>5
<1> HIDE DEF i, J, K
<1>11. Ahead(f, g, J, K, i, f[i], g[i])
    BY <1>6, <1>8, <1>9, <1>10 DEF Ahead
<1> QED
    BY <1>7, <1>11 DEF i, J, K

\* Up to where a chain has come the changed text is as the text was.
LEMMA FrontAlike ==
    ASSUME NEW t, NEW list, NEW p, NEW s, NEW w, NEW f, NEW g, Setting(t, list, p, s, w, f, g),
           NEW j \in 0 .. Len(list), Chain(t, p, f, g, j)
    PROVE  /\ Merged(t, w, f, g, Leading(p, j)) \in Text
           /\ Alike(t, Merged(t, w, f, g, Leading(p, j)), Limit(t, p, f, j))
           /\ Leading(p, j) \in SUBSET (1 .. Len(list))
           /\ j = 0 => Merged(t, w, f, g, Leading(p, j)) = t
<1> DEFINE J == Leading(p, j)
           k == Limit(t, p, f, j)
           v == Merged(t, w, f, g, J)
           n == Len(list)
<1>0. Known(t, list, p, s, w, f, g) /\ t \in Text
    BY SettingMeans DEF Setting
<1>1. /\ n \in Nat /\ Len(t) \in Nat /\ w \in Seq(Text) /\ Len(w) = n
      /\ \A x \in 1 .. n : f[x] \in -1 .. Len(t)
      /\ \A m \in 1 .. n : p[m] \in 1 .. n
    BY <1>0 DEF Known
<1>2. k \in 0 .. Len(t) /\ \A m \in 1 .. j : k <= f[p[m]]
    BY ChainMeans
<1>3. J \in SUBSET (1 .. n)
    BY <1>1 DEF Leading
<1>4. \A h \in J : f[h] \in Int /\ k <= f[h]
    <2>1. \A h \in J : k <= f[h]
        BY <1>2 DEF Leading
    <2> QED
        BY <1>1, <1>3, <2>1
<1>5. v \in Text
    <2> HIDE DEF J
    <2> QED
        BY <1>0, <1>1, PiecesMean
<1>6. j = 0 => v = t
    <2>1. j = 0 => J = {}
        BY DEF Leading
    <2>2. Merged(t, w, f, g, {}) = t
        BY <1>0, <1>1, MergedNothing
    <2> QED
        BY <2>1, <2>2
<1> HIDE DEF J, k, n
<1>7. \E D \in Text : v = SubSeq(t, 1, k) \o D
    <2>1. J \in SUBSET (1 .. Len(w))
        BY <1>1, <1>3
    <2> QED
        <3>1. t \in Text /\ w \in Seq(Text) /\ k \in 0 .. Len(t)
            BY <1>0, <1>1, <1>2
        <3>2. Begins(v, t, k)
            BY <1>4, <2>1, <3>1, MergedBefore
        <3> QED
            BY <3>2 DEF Begins
<1>8. PICK D \in Text : v = SubSeq(t, 1, k) \o D
    BY <1>7
<1>9. Alike(t, v, k)
    <2>1. k \in 0 .. k /\ k \in Nat /\ k <= Len(t) /\ Len(D) \in Nat
        BY <1>1, <1>2 DEF Text
    <2>2. Halves(t, D, k, k, k)
        BY <1>0, <1>2, <2>1, Around
    <2>3. Len(v) = k + Len(D) /\ \A x \in 1 .. k : v[x] = t[x]
        BY <1>8, <2>2 DEF Halves
    <2> QED
        BY <2>1, <2>3 DEF Alike
<1> QED
    BY <1>3, <1>5, <1>6, <1>9 DEF J, k, n

\* The next edit of a chain, applied to what the others have made of the text.
LEMMA FrontApplies ==
    ASSUME NEW t, NEW list, NEW p, NEW s, NEW w, NEW f, NEW g, Setting(t, list, p, s, w, f, g),
           NEW j \in Nat, j + 1 \in 1 .. Len(list), Chain(t, p, f, g, j),
           NEW v, v = Merged(t, w, f, g, Leading(p, j))
    PROVE  /\ EndsInTime(t, p, f, g, j + 1) =>
                 /\ InRange(v, s[j + 1].edit)
                 /\ Splice(v, s[j + 1].edit) = Merged(t, w, f, g, Leading(p, j + 1))
           /\ ~Overlaps(s) /\ InRange(v, s[j + 1].edit) => EndsInTime(t, p, f, g, j + 1)
<1> DEFINE n == Len(list)
           i == p[j + 1]
           k == Limit(t, p, f, j)
           a == f[i]
           b == g[i]
           x == Offset(v, list[i].start)
           y == Offset(v, list[i].end)
<1>0. Known(t, list, p, s, w, f, g) /\ t \in Text
    BY SettingMeans DEF Setting
<1>1. /\ n \in Nat /\ Len(t) \in Nat /\ w \in Seq(Text) /\ Len(w) = n /\ Len(s) = n
      /\ \A z \in 1 .. n : /\ list[z].start \in Place /\ list[z].end \in Place /\ w[z] = list[z].newText
                           /\ f[z] = PlaceOf(t, list[z].start) /\ f[z] \in -1 .. Len(t)
                           /\ g[z] = PlaceOf(t, list[z].end) /\ g[z] \in -1 .. Len(t)
                           /\ (f[z] >= 0 => PositionOf(t, f[z]) = list[z].start)
      /\ \A m \in 1 .. n : p[m] \in 1 .. n /\ s[m].edit = list[p[m]]
    BY <1>0 DEF Known
<1>2. /\ i \in 1 .. n /\ s[j + 1].edit = list[i] /\ j \in 0 .. n /\ (j + 1) - 1 = j
      /\ list[i].start \in Place /\ list[i].end \in Place /\ w[i] = list[i].newText
      /\ a = PlaceOf(t, list[i].start) /\ b = PlaceOf(t, list[i].end) /\ a \in Int /\ b \in Int
    <2>1. i \in 1 .. n /\ s[j + 1].edit = list[i]
        BY <1>1
    <2>2. j \in 0 .. n /\ (j + 1) - 1 = j
        BY <1>1
    <2>3. f[i] \in -1 .. Len(t) /\ g[i] \in -1 .. Len(t)
        BY <1>1, <2>1
    <2> QED
        BY <1>1, <2>1, <2>2, <2>3, SMTT(30)
<1>3. /\ v \in Text /\ Alike(t, v, k) /\ Leading(p, j) \in SUBSET (1 .. n) /\ (j = 0 => v = t)
    BY <1>2, FrontAlike
<1>4. k \in 0 .. Len(t)
    BY <1>2, ChainMeans
<1>5. Shares(t, v, k, list[i].start) /\ Shares(t, v, k, list[i].end)
    BY <1>0, <1>2, <1>3, Resolving
<1>6. /\ InRange(v, s[j + 1].edit) <=> (x >= 0 /\ x <= y)
      /\ Splice(v, s[j + 1].edit) = SubSeq(v, 1, x) \o w[i] \o SubSeq(v, y + 1, Len(v))
    BY <1>2 DEF InRange, Splice
<1>7. EndsInTime(t, p, f, g, j + 1) <=> 0 <= a /\ a <= b /\ b <= k
    BY <1>2 DEF EndsInTime
<1>8. (x = -1 \/ x \in 0 .. Len(v)) /\ (y = -1 \/ y \in 0 .. Len(v)) /\ Len(v) \in Nat
    <2>1. v \in Seq(STRING)
        BY <1>3 DEF Text
    <2> QED
        BY <1>2, <2>1, OffsetMeans
<1> HIDE DEF x, y, a, b, k, i, n
<1>9. ASSUME 0 <= a, a <= b, b <= k
      PROVE  InRange(v, s[j + 1].edit) /\ Splice(v, s[j + 1].edit) = Merged(t, w, f, g, Leading(p, j + 1))
    <2>1. a \in 0 .. k /\ b \in 0 .. k
        BY <1>2, <1>4, <1>9
    <2>2. x = a /\ y = b
        BY <1>2, <1>5, <2>1 DEF Shares, x, y
    <2>3. InRange(v, s[j + 1].edit)
        BY <1>2, <1>6, <1>9, <2>2
    <2>4. Ahead(f, g, Leading(p, j), Leading(p, j + 1), i, a, b) /\ a \in 0 .. Len(t) /\ b \in 0 .. Len(t)
        <3>1. EndsInTime(t, p, f, g, j + 1)
            BY <1>7, <1>9
        <3> QED
            BY <3>1, FrontAhead DEF i, a, b
    <2>5. i \in 1 .. Len(w) /\ Leading(p, j) \in SUBSET (1 .. Len(w))
        BY <1>1, <1>2, <1>3
    <2>6. SubSeq(v, 1, a) \o w[i] \o SubSeq(v, b + 1, Len(v)) = Merged(t, w, f, g, Leading(p, j + 1))
        <3>1. t \in Text /\ w \in Seq(Text)
            BY <1>0, <1>1
        <3>2. Spliced(Merged(t, w, f, g, Leading(p, j)), a, b, w[i]) = Merged(t, w, f, g, Leading(p, j + 1))
            BY <2>4, <2>5, <3>1, MergedStep
        <3> QED
            BY <3>2 DEF Spliced
    <2> QED
        BY <1>6, <2>2, <2>3, <2>6
<1>10. ASSUME ~Overlaps(s), x >= 0, x <= y PROVE 0 <= a /\ a <= b /\ b <= k
    <2>1. y \in 0 .. Len(v)
        BY <1>8, <1>10
    <2>2. y <= k
        <3>1. CASE j = 0
            BY <1>1, <1>3, <2>1, <3>1 DEF k, Limit
        <3>2. CASE j # 0
            <4>1. j \in 1 .. Len(s) - 1 /\ j \in 1 .. n /\ p[j] \in 1 .. n
                BY <1>1, <1>2, <3>2 DEF n
            <4>2. ~PositionLess(s[j].edit.start, s[j + 1].edit.end)
                BY <1>10, <4>1 DEF Overlaps
            <4>3. s[j].edit.start = list[p[j]].start /\ s[j + 1].edit.end = list[i].end
                BY <1>1, <1>2, <4>1
            <4>4. k = f[p[j]]
                BY <3>2 DEF k, Limit
            <4>5. PositionOf(t, k) = list[p[j]].start
                BY <1>1, <1>4, <4>1, <4>4
            <4>6. ~PositionLess(PositionOf(t, k), list[i].end) /\ y >= 0
                BY <2>1, <4>2, <4>3, <4>5
            <4> QED
                BY <1>5, <4>6 DEF Shares, y
        <3> QED
            BY <3>1, <3>2
    <2>3. x \in 0 .. k /\ y \in 0 .. k
        BY <1>4, <1>8, <1>10, <2>1, <2>2
    <2>4. a = x /\ b = y
        BY <1>2, <1>5, <2>3 DEF Shares, x, y
    <2> QED
        BY <1>10, <2>2, <2>4
<1> QED
    BY <1>6, <1>7, <1>9, <1>10

\* As long as the edits are a chain each is applied, to what they mean together;
\* of sorted edits without overlap only a chain is applied.
Loops(t, p, s, w, f, g, after, j) ==
    /\ Chain(t, p, f, g, j) => after[j] = [ok |-> TRUE, text |-> Merged(t, w, f, g, Leading(p, j))]
    /\ ~Overlaps(s) /\ after[j].ok => Chain(t, p, f, g, j)

\* One edit more keeps that.
LEMMA LoopStep ==
    ASSUME NEW t, NEW list, NEW p, NEW s, NEW w, NEW f, NEW g, Setting(t, list, p, s, w, f, g),
           NEW after, Follows(after, t, s), NEW j \in Nat, j + 1 \in 1 .. Len(list),
           Loops(t, p, s, w, f, g, after, j)
    PROVE  Loops(t, p, s, w, f, g, after, j + 1)
<1> DEFINE v == Merged(t, w, f, g, Leading(p, j))
           e == s[j + 1]
<1>1. Known(t, list, p, s, w, f, g)
    BY SettingMeans
<1>2. after[j + 1] = ApplyOne(after[j], e)
    <2>1. Len(s) = Len(list) /\ (j + 1) - 1 = j
        BY <1>1 DEF Known
    <2> QED
        BY <2>1 DEF Follows
<1>3. Chain(t, p, f, g, j + 1) <=> Chain(t, p, f, g, j) /\ EndsInTime(t, p, f, g, j + 1)
    <2>1. 1 .. j + 1 = 1 .. j \cup {j + 1}
        OBVIOUS
    <2> QED
        BY <2>1 DEF Chain
<1>4. ASSUME Chain(t, p, f, g, j)
      PROVE  /\ EndsInTime(t, p, f, g, j + 1) =>
                   InRange(v, e.edit) /\ Splice(v, e.edit) = Merged(t, w, f, g, Leading(p, j + 1))
             /\ ~Overlaps(s) /\ InRange(v, e.edit) => EndsInTime(t, p, f, g, j + 1)
    BY <1>4, FrontApplies
<1> HIDE DEF v, e
<1>5. ASSUME Chain(t, p, f, g, j + 1)
      PROVE  after[j + 1] = [ok |-> TRUE, text |-> Merged(t, w, f, g, Leading(p, j + 1))]
    <2>1. after[j] = [ok |-> TRUE, text |-> v]
        BY <1>3, <1>5 DEF Loops, v
    <2>2. InRange(v, e.edit) /\ Splice(v, e.edit) = Merged(t, w, f, g, Leading(p, j + 1))
        BY <1>3, <1>4, <1>5
    <2>3. after[j].ok /\ after[j].text = v
        BY <2>1
    <2> QED
        BY <1>2, <2>2, <2>3 DEF ApplyOne
<1>6. ASSUME ~Overlaps(s), after[j + 1].ok
      PROVE  Chain(t, p, f, g, j + 1)
    <2>1. after[j].ok /\ InRange(after[j].text, e.edit)
        BY <1>2, <1>6 DEF ApplyOne, Rejected
    <2>2. Chain(t, p, f, g, j)
        BY <1>6, <2>1 DEF Loops
    <2>3. after[j].text = v
        <3>1. after[j] = [ok |-> TRUE, text |-> v]
            BY <2>2 DEF Loops, v
        <3> QED
            BY <3>1
    <2>4. EndsInTime(t, p, f, g, j + 1)
        BY <1>4, <1>6, <2>1, <2>2, <2>3
    <2> QED
        BY <1>3, <2>2, <2>4
<1> QED
    BY <1>5, <1>6 DEF Loops

\* So it is for all edits of the list.
LEMMA Loop ==
    ASSUME NEW t, NEW list, NEW p, NEW s, NEW w, NEW f, NEW g, Setting(t, list, p, s, w, f, g),
           NEW after, Follows(after, t, s)
    PROVE  Loops(t, p, s, w, f, g, after, Len(list))
<1> DEFINE n == Len(list)
           T == {j \in Nat : Loops(t, p, s, w, f, g, after, j)}
<1>1. n \in Nat /\ n \in 0 .. n /\ 0 \in 0 .. n
    <2>1. Known(t, list, p, s, w, f, g)
        BY SettingMeans
    <2> QED
        BY <2>1 DEF Known
<1>2. Chain(t, p, f, g, 0)
    BY DEF Chain
<1>3. 0 \in T
    <2>1. after[0] = [ok |-> TRUE, text |-> t]
        BY DEF Follows
    <2>2. Merged(t, w, f, g, Leading(p, 0)) = t
        BY <1>1, <1>2, FrontAlike
    <2> QED
        BY <1>2, <2>1, <2>2 DEF Loops
<1>4. ASSUME NEW k \in 0 .. n - 1, k \in T PROVE k + 1 \in T
    <2>1. k \in Nat /\ k + 1 \in Nat /\ k + 1 \in 1 .. n
        BY <1>1
    <2> QED
        BY <1>4, <2>1, LoopStep
<1>5. T \in SUBSET Nat
    OBVIOUS
<1> HIDE DEF T, n
<1>6. \A k \in 0 .. n : k \in T
    BY <1>1, <1>3, <1>4, <1>5, UpTo
<1>7. n \in T
    BY <1>1, <1>6
<1> QED
    BY <1>7 DEF T, n

\* The lists with a meaning are the chains, and no two edits of a chain overlap.
LEMMA ChainsMeaningful ==
    ASSUME NEW t, NEW list, NEW p, NEW s, NEW w, NEW f, NEW g, Setting(t, list, p, s, w, f, g)
    PROVE  /\ Meaningful(t, list) <=> Chain(t, p, f, g, Len(list))
           /\ Chain(t, p, f, g, Len(list)) => ~Overlaps(s)
<1> DEFINE n == Len(list)
<1>0. Known(t, list, p, s, w, f, g) /\ list \in Seq(Edits)
    BY SettingMeans DEF Setting
<1>1. /\ n \in Nat /\ Len(t) \in Nat /\ Len(s) = n
      /\ \A i \in 1 .. n : /\ list[i].start \in Place /\ list[i].end \in Place
                           /\ f[i] \in -1 .. Len(t) /\ g[i] \in -1 .. Len(t)
                           /\ (f[i] >= 0 => PositionOf(t, f[i]) = list[i].start)
                           /\ (g[i] >= 0 => PositionOf(t, g[i]) = list[i].end)
                           /\ \E m \in 1 .. n : p[m] = i
    BY <1>0 DEF Known
<1>2. \A m \in 1 .. n : p[m] \in 1 .. n /\ s[m].edit = list[p[m]]
    BY <1>0 DEF Known
<1>3. \A m, h \in 1 .. n :
          m < h => /\ p[m] # p[h]
                   /\ \/ PositionLess(list[p[h]].start, list[p[m]].start)
                      \/ list[p[h]].start = list[p[m]].start /\ p[h] < p[m]
    BY <1>0 DEF Known
<1>9. \A i \in 1 .. n : f[i] \in Int /\ g[i] \in Int /\ g[i] <= Len(t) /\ i \in Int
    <2>1. \A i \in 1 .. n : f[i] \in -1 .. Len(t) /\ g[i] \in -1 .. Len(t)
        BY <1>1
    <2>2. Len(t) \in Nat
        BY <1>1
    <2> HIDE DEF n
    <2> QED
        BY <2>1, <2>2
<1>4. Meaningful(t, list) <=>
         /\ \A m \in 1 .. n : 0 <= f[m] /\ f[m] <= g[m]
         /\ \A m, h \in 1 .. n : m < h => (g[h] <= f[m] /\ f[h] < f[m]) \/ g[m] <= f[h]
    <2>1. /\ f = [m \in 1 .. n |-> PlaceOf(t, list[m].start)]
          /\ g = [m \in 1 .. n |-> PlaceOf(t, list[m].end)]
          /\ DOMAIN list = 1 .. n
        BY <1>0 DEF Setting
    <2> HIDE DEF n
    <2> QED
        BY <2>1 DEF Meaningful
<1>5. ASSUME NEW m \in 1 .. n, NEW h \in 1 .. n, m < h, f[p[m]] >= 0, f[p[h]] >= 0
      PROVE  f[p[h]] < f[p[m]] \/ (f[p[h]] = f[p[m]] /\ p[h] < p[m])
    <2>1. p[m] \in 1 .. n /\ p[h] \in 1 .. n
        BY <1>2
    <2>2. /\ PositionOf(t, f[p[m]]) = list[p[m]].start /\ PositionOf(t, f[p[h]]) = list[p[h]].start
          /\ f[p[m]] \in Nat /\ f[p[h]] \in Nat
        <3>1. f[p[m]] \in Int /\ f[p[h]] \in Int
            BY <1>9, <2>1
        <3>2. f[p[m]] \in Nat /\ f[p[h]] \in Nat
            BY <1>5, <3>1
        <3> QED
            BY <1>1, <1>5, <2>1, <3>2
    <2>3. \/ PositionLess(list[p[h]].start, list[p[m]].start)
          \/ list[p[h]].start = list[p[m]].start /\ p[h] < p[m]
        BY <1>3, <1>5
    <2> QED
        BY <2>2, <2>3, PositionsTell
<1> HIDE DEF n
<1>6. ASSUME Meaningful(t, list), NEW m \in 1 .. n
      PROVE  EndsInTime(t, p, f, g, m)
    <2>1. p[m] \in 1 .. n /\ 0 <= f[p[m]] /\ f[p[m]] <= g[p[m]] /\ g[p[m]] \in Int /\ g[p[m]] <= Len(t)
        <3>1. p[m] \in 1 .. n
            BY <1>2
        <3>2. 0 <= f[p[m]] /\ f[p[m]] <= g[p[m]]
            BY <1>4, <1>6, <3>1
        <3> QED
            BY <1>9, <3>1, <3>2
    <2>2. g[p[m]] <= Limit(t, p, f, m - 1)
        <3>1. CASE m = 1
            BY <2>1, <3>1 DEF Limit
        <3>2. CASE m # 1
            <4> DEFINE h == m - 1
            <4>1. h \in 1 .. n /\ h < m /\ h # 0
                BY <1>1, <3>2
            <4> HIDE DEF h
            <4>2. /\ p[h] \in 1 .. n /\ 0 <= f[p[h]] /\ f[p[h]] <= g[p[h]]
                BY <1>2, <1>4, <1>6, <4>1
            <4>3. f[p[h]] \in Int /\ f[p[m]] \in Int /\ g[p[h]] \in Int /\ p[h] \in Int /\ p[m] \in Int
                BY <1>9, <2>1, <4>2
            <4>4. f[p[m]] < f[p[h]] \/ (f[p[m]] = f[p[h]] /\ p[m] < p[h])
                BY <1>5, <2>1, <4>1, <4>2, <4>3
            <4>5. p[m] # p[h]
                BY <1>3, <4>1
            <4>6. p[m] < p[h] => (g[p[h]] <= f[p[m]] /\ f[p[h]] < f[p[m]]) \/ g[p[m]] <= f[p[h]]
                BY <1>4, <1>6, <2>1, <4>2
            <4>7. p[h] < p[m] => (g[p[m]] <= f[p[h]] /\ f[p[m]] < f[p[h]]) \/ g[p[h]] <= f[p[m]]
                BY <1>4, <1>6, <2>1, <4>2
            <4>8. g[p[m]] <= f[p[h]]
                BY <2>1, <4>2, <4>3, <4>4, <4>5, <4>6, <4>7
            <4>9. Limit(t, p, f, h) = f[p[h]]
                BY <4>1 DEF Limit
            <4> QED
                BY <4>8, <4>9 DEF h
        <3> QED
            BY <3>1, <3>2
    <2> QED
        BY <2>1, <2>2 DEF EndsInTime
<1>7. ASSUME Chain(t, p, f, g, n)
      PROVE  Meaningful(t, list)
    <2>1. \A m, h \in 1 .. n : m < h => g[p[h]] <= f[p[m]]
        BY <1>1, <1>7, ChainMeans DEF n
    <2>2. \A m \in 1 .. n : 0 <= f[p[m]] /\ f[p[m]] <= g[p[m]]
        BY <1>7 DEF Chain, EndsInTime
    <2>3. \A i \in 1 .. n : 0 <= f[i] /\ f[i] <= g[i]
        BY <1>1, <2>2
    <2>4. ASSUME NEW i \in 1 .. n, NEW k \in 1 .. n, i < k
          PROVE  (g[k] <= f[i] /\ f[k] < f[i]) \/ g[i] <= f[k]
        <3>1. PICK x \in 1 .. n : p[x] = i
            BY <1>1
        <3>2. PICK y \in 1 .. n : p[y] = k
            BY <1>1
        <3>3. x # y
            BY <2>4, <3>1, <3>2
        <3>4. CASE x < y
            <4>1. g[k] <= f[i]
                BY <2>1, <3>1, <3>2, <3>4
            <4>2. f[p[x]] >= 0 /\ f[p[y]] >= 0 /\ f[p[x]] \in Int /\ f[p[y]] \in Int
                BY <1>9, <2>3, <3>1, <3>2
            <4>3. f[p[y]] < f[p[x]] \/ (f[p[y]] = f[p[x]] /\ p[y] < p[x])
                BY <1>5, <3>4, <4>2
            <4>4. ~(k < i)
                BY <2>4
            <4> QED
                BY <3>1, <3>2, <4>1, <4>3, <4>4
        <3>5. CASE y < x
            BY <2>1, <3>1, <3>2, <3>5
        <3> QED
            BY <3>3, <3>4, <3>5
    <2> QED
        BY <1>4, <2>3, <2>4
<1>8. ASSUME Chain(t, p, f, g, n)
      PROVE  ~Overlaps(s)
    <2> SUFFICES ASSUME NEW m \in 1 .. Len(s) - 1, PositionLess(s[m].edit.start, s[m + 1].edit.end)
                 PROVE  FALSE
        BY DEF Overlaps
    <2>1. m \in 1 .. n /\ m + 1 \in 1 .. n /\ m < m + 1
        BY <1>1
    <2>2. \A k, h \in 1 .. n : k < h => g[p[h]] <= f[p[k]]
        <3>1. n \in 0 .. Len(list) /\ Chain(t, p, f, g, n)
            BY <1>1, <1>8 DEF n
        <3> QED
            BY <3>1, ChainMeans
    <2>3. g[p[m + 1]] <= f[p[m]]
        BY <2>1, <2>2
    <2>4. 0 <= f[p[m + 1]] /\ f[p[m + 1]] <= g[p[m + 1]]
        BY <1>8, <2>1 DEF Chain, EndsInTime
    <2>5. p[m] \in 1 .. n /\ p[m + 1] \in 1 .. n /\ s[m].edit = list[p[m]] /\ s[m + 1].edit = list[p[m + 1]]
        BY <1>2, <2>1
    <2>6. /\ f[p[m]] \in -1 .. Len(t) /\ g[p[m + 1]] \in -1 .. Len(t) /\ f[p[m + 1]] \in -1 .. Len(t)
          /\ (f[p[m]] >= 0 => PositionOf(t, f[p[m]]) = list[p[m]].start)
          /\ (g[p[m + 1]] >= 0 => PositionOf(t, g[p[m + 1]]) = list[p[m + 1]].end)
        BY <1>1, <2>5
    <2>7. f[p[m]] \in Nat /\ g[p[m + 1]] \in Nat
        <3>1. f[p[m]] \in Int /\ g[p[m + 1]] \in Int /\ f[p[m + 1]] \in Int
            BY <1>9, <2>5
        <3> QED
            BY <2>3, <2>4, <3>1
    <2>8. PositionLess(PositionOf(t, f[p[m]]), PositionOf(t, g[p[m + 1]]))
        BY <2>5, <2>6, <2>7
    <2> QED
        BY <2>3, <2>7, <2>8, PositionsTell
<1> QED
    BY <1>6, <1>7, <1>8 DEF Chain, n

\* All the edits together are what they mean at once.
LEMMA AllTogether ==
    ASSUME NEW t, NEW list, NEW p, NEW s, NEW w, NEW f, NEW g, Setting(t, list, p, s, w, f, g)
    PROVE  Merged(t, w, f, g, Leading(p, Len(list))) = Simultaneous(t, list)
<1> DEFINE n == Len(list)
<1>0. Known(t, list, p, s, w, f, g) /\ list \in Seq(Edits)
    BY SettingMeans DEF Setting
<1>1. /\ n \in Nat /\ Len(w) = n
      /\ \A i \in 1 .. n : \E m \in 1 .. n : p[m] = i
      /\ \A m \in 1 .. n : p[m] \in 1 .. n
    BY <1>0 DEF Known
<1>2. /\ f = [m \in 1 .. n |-> PlaceOf(t, list[m].start)]
      /\ g = [m \in 1 .. n |-> PlaceOf(t, list[m].end)]
      /\ w = [m \in 1 .. n |-> list[m].newText]
      /\ DOMAIN list = 1 .. n
    BY <1>0 DEF Setting
<1> HIDE DEF n
<1>3. Leading(p, n) = 1 .. n
    BY <1>1 DEF Leading
<1> DEFINE inserted(o) == FlattenSeq([m \in 1 .. n |-> IF f[m] = o THEN list[m].newText ELSE << >>])
           kept(o) == o < Len(t) /\ \A m \in 1 .. n : ~(f[m] <= o /\ o < g[m])
<1>4. Simultaneous(t, list) =
         FlattenSeq([x \in 1 .. Len(t) + 1 |-> inserted(x - 1) \o (IF kept(x - 1) THEN <<t[x]>> ELSE << >>)])
    BY <1>2 DEF Simultaneous
<1>5. ASSUME NEW o PROVE inserted(o) = FlattenSeq(Inserts(w, f, 1 .. n, o))
    <2>1. Inserts(w, f, 1 .. n, o) = [m \in 1 .. n |-> IF f[m] = o THEN list[m].newText ELSE << >>]
        BY <1>1, <1>2 DEF Inserts
    <2> QED
        BY <2>1
<1>6. ASSUME NEW o PROVE kept(o) <=> Kept(t, f, g, 1 .. n, o)
    BY DEF Kept
<1> HIDE DEF inserted, kept
<1>7. \A x \in 1 .. Len(t) + 1 :
         inserted(x - 1) \o (IF kept(x - 1) THEN <<t[x]>> ELSE << >>) = Piece(t, w, f, g, 1 .. n, x)
    BY <1>5, <1>6 DEF Piece
<1>8. Pieces(t, w, f, g, 1 .. n) =
         [x \in 1 .. Len(t) + 1 |-> inserted(x - 1) \o (IF kept(x - 1) THEN <<t[x]>> ELSE << >>)]
    BY <1>7 DEF Pieces
<1> QED
    BY <1>3, <1>4, <1>8 DEF Merged, n

\* applyEdits applies the lists with a meaning, and gives that meaning.
LEMMA AppliesMeans ==
    ASSUME NEW t \in Text, NEW list \in Seq(Edits)
    PROVE  /\ ApplyEdits(t, list).ok <=> Meaningful(t, list)
           /\ ApplyEdits(t, list).ok => ApplyEdits(t, list).text = Simultaneous(t, list)
<1> DEFINE s == Sorted(list)
           n == Len(list)
           after == Partly(t, s)
<1>1. PICK p, w, f, g : Setting(t, list, p, s, w, f, g)
    BY SettingExists
<1> HIDE DEF s
<1>2. Known(t, list, p, s, w, f, g)
    BY <1>1, SettingMeans
<1>3. Len(s) = n /\ n \in Nat /\ \A m \in 1 .. n : s[m].edit \in Edits
    BY <1>2 DEF Known
<1>4. Follows(after, t, s)
    BY <1>3, PartlyMeans
<1> HIDE DEF after, n
<1>5. Loops(t, p, s, w, f, g, after, n)
    BY <1>1, <1>4, Loop DEF n
<1>6. /\ Meaningful(t, list) <=> Chain(t, p, f, g, n)
      /\ Chain(t, p, f, g, n) => ~Overlaps(s)
    BY <1>1, ChainsMeaningful DEF n
<1>7. Merged(t, w, f, g, Leading(p, n)) = Simultaneous(t, list)
    BY <1>1, AllTogether DEF n
<1>8. ApplyEdits(t, list) = IF Overlaps(s) THEN Rejected(t) ELSE after[n]
    BY <1>3 DEF ApplyEdits, s, after
<1>9. CASE Chain(t, p, f, g, n)
    <2>1. ApplyEdits(t, list) = [ok |-> TRUE, text |-> Simultaneous(t, list)]
        BY <1>5, <1>6, <1>7, <1>8, <1>9 DEF Loops
    <2> QED
        BY <1>6, <1>9, <2>1
<1>10. CASE ~Chain(t, p, f, g, n)
    <2>1. ~ApplyEdits(t, list).ok
        <3>1. CASE Overlaps(s)
            BY <1>8, <3>1 DEF Rejected
        <3>2. CASE ~Overlaps(s)
            BY <1>5, <1>8, <1>10, <3>2 DEF Loops
        <3> QED
            BY <3>1, <3>2
    <2> QED
        BY <1>6, <1>10, <2>1
<1> QED
    BY <1>9, <1>10

\* What a meaning says of two edits that start at one place: the shorter is
\* listed first.
LEMMA ShorterFirst ==
    ASSUME NEW t \in Text, NEW list \in Seq(Edits), Meaningful(t, list),
           NEW i \in 1 .. Len(list), NEW k \in 1 .. Len(list),
           list[i].start = list[k].start, PositionLess(list[i].end, list[k].end)
    PROVE  i < k
<1> DEFINE n == Len(list)
           f == [m \in 1 .. n |-> PlaceOf(t, list[m].start)]
           g == [m \in 1 .. n |-> PlaceOf(t, list[m].end)]
<1>1. DOMAIN list = 1 .. n /\ n \in Nat /\ t \in Seq(STRING) /\ Len(t) \in Nat
    BY DEF Text
<1>2. \A m \in 1 .. n : list[m].start \in Place /\ list[m].end \in Place
    BY IndexedMeans
<1>3. /\ \A m \in 1 .. n : 0 <= f[m] /\ f[m] <= g[m]
      /\ \A m, h \in 1 .. n : m < h => (g[h] <= f[m] /\ f[h] < f[m]) \/ g[m] <= f[h]
    <2>1. /\ f = [m \in DOMAIN list |-> PlaceOf(t, list[m].start)]
          /\ g = [m \in DOMAIN list |-> PlaceOf(t, list[m].end)]
        BY <1>1
    <2> HIDE DEF f, g, n
    <2> QED
        BY <1>1, <2>1 DEF Meaningful
<1>4. f[i] = PlaceOf(t, list[i].start) /\ f[k] = PlaceOf(t, list[k].start)
      /\ g[i] = PlaceOf(t, list[i].end) /\ g[k] = PlaceOf(t, list[k].end)
    OBVIOUS
<1> HIDE DEF f, g, n
<1>5. i \in 1 .. n /\ k \in 1 .. n /\ i \in Int /\ k \in Int
    BY DEF n
<1>6. /\ g[i] \in -1 .. Len(t) /\ (g[i] >= 0 => PositionOf(t, g[i]) = list[i].end)
    BY <1>1, <1>2, <1>4, <1>5, PlaceMeans
<1>7. /\ g[k] \in -1 .. Len(t) /\ (g[k] >= 0 => PositionOf(t, g[k]) = list[k].end)
    BY <1>1, <1>2, <1>4, <1>5, PlaceMeans
<1>8. f[i] \in -1 .. Len(t) /\ f[i] = f[k]
    BY <1>1, <1>2, <1>4, <1>5, PlaceMeans
<1>9. 0 <= f[i] /\ f[i] <= g[i] /\ f[k] <= g[k]
    BY <1>3, <1>5
<1>10. g[i] \in Nat /\ g[k] \in Nat /\ f[i] \in Nat
    BY <1>1, <1>6, <1>7, <1>8, <1>9
<1>11. g[i] < g[k]
    <2>1. PositionLess(PositionOf(t, g[i]), PositionOf(t, g[k]))
        BY <1>6, <1>7, <1>10
    <2> QED
        BY <1>10, <2>1, PositionsTell
<1>12. i # k
    BY <1>11, <1>10
<1>13. ~(k < i)
    <2>1. k < i => (g[i] <= f[k] /\ f[i] < f[k]) \/ g[k] <= f[i]
        BY <1>3, <1>5
    <2> QED
        BY <1>8, <1>9, <1>10, <1>11, <2>1
<1> QED
    BY <1>5, <1>12, <1>13

\* Sorting what a dry run has put in order sorts the edits as they were listed.
LEMMA SameSorted ==
    ASSUME NEW t \in Text, NEW list \in Seq(Edits), Meaningful(t, list)
    PROVE  /\ Ordered(list) \in Seq(Edits)
           /\ Len(Sorted(list)) = Len(list) /\ Len(Sorted(Ordered(list))) = Len(list)
           /\ \A m \in 1 .. Len(list) : /\ Sorted(list)[m].edit \in Edits
                                        /\ Sorted(Ordered(list))[m].edit = Sorted(list)[m].edit
<1> DEFINE n == Len(list)
           other == Ordered(list)
           x == Indexed(list)
           y == Indexed(other)
<1>1. PICK p, w, f, g : Setting(t, list, p, Sorted(list), w, f, g)
    BY SettingExists
<1>2. PICK r : /\ Lists(r, TextEditLessIn(list), n)
               /\ other = [m \in 1 .. n |-> list[r[m]]]
    BY OrderedMeans
<1>0. n \in Nat
    OBVIOUS
<1>3. /\ r \in [1 .. n -> 1 .. n]
      /\ \A i \in 1 .. n : \E m \in 1 .. n : r[m] = i
      /\ \A m, h \in 1 .. n : m < h => <<r[m], r[h]>> \in TextEditLessIn(list)
    BY <1>2 DEF Lists
<1>4. \A i \in 1 .. n : /\ x[i].edit = list[i] /\ x[i].orig = i /\ list[i] \in Edits
                        /\ list[i].start \in Place /\ list[i].end \in Place
    BY IndexedMeans
<1>5. \A i, h \in 1 .. n : <<i, h>> \in TextEditLessIn(list) <=> TextEditLess(x[i], x[h])
    BY DEF TextEditLessIn
<1>6. \A i, h \in 1 .. n : <<i, h>> \in LaterFirstIn(list) <=> LaterFirst(x[i], x[h])
    BY DEF LaterFirstIn
<1> HIDE DEF other, x, n
<1>7. other \in Seq(Edits) /\ Len(other) = n /\ \A m \in 1 .. n : other[m] = list[r[m]]
    <2>1. \A m \in 1 .. n : other[m] = list[r[m]] /\ list[r[m]] \in Edits
        BY <1>2, <1>3, <1>4
    <2>2. other = [m \in 1 .. n |-> other[m]]
        BY <1>2
    <2>3. other \in [1 .. n -> Edits]
        BY <2>1, <2>2
    <2> QED
        BY <1>0, <2>1, <2>3
<1>8. PICK u, w2, f2, g2 : Setting(t, other, u, Sorted(other), w2, f2, g2)
    BY <1>7, SettingExists
<1>9. /\ u \in [1 .. n -> 1 .. n]
      /\ \A i \in 1 .. n : \E m \in 1 .. n : u[m] = i
      /\ \A m, h \in 1 .. n : m < h => <<u[m], u[h]>> \in LaterFirstIn(other)
    BY <1>7, <1>8 DEF Setting, Lists
<1>10. \A i, h \in 1 .. n : <<i, h>> \in LaterFirstIn(other) <=> LaterFirst(y[i], y[h])
    BY <1>7 DEF LaterFirstIn
<1>11. \A i \in 1 .. n : y[i].edit = other[i] /\ y[i].orig = i
    BY <1>7, IndexedMeans
<1>12. Known(t, list, p, Sorted(list), w, f, g) /\ Known(t, other, u, Sorted(other), w2, f2, g2)
    BY <1>1, <1>8, SettingMeans
<1>13. /\ Len(Sorted(list)) = n
       /\ \A m \in 1 .. n : p[m] \in 1 .. n /\ Sorted(list)[m].edit = list[p[m]]
    BY <1>12 DEF Known, n
<1>14. /\ Len(Sorted(other)) = n
       /\ \A m \in 1 .. n : u[m] \in 1 .. n /\ Sorted(other)[m].edit = other[u[m]]
    BY <1>7, <1>12 DEF Known
<1> HIDE DEF y
<1> DEFINE q == [m \in 1 .. n |-> r[u[m]]]
<1>15. q \in [1 .. n -> 1 .. n] /\ \A m \in 1 .. n : q[m] = r[u[m]]
    BY <1>3, <1>9
<1>16. ASSUME NEW i \in 1 .. n PROVE \E m \in 1 .. n : q[m] = i
    <2>1. PICK h \in 1 .. n : r[h] = i
        BY <1>3
    <2>2. PICK m \in 1 .. n : u[m] = h
        BY <1>9
    <2> QED
        BY <1>15, <2>1, <2>2
<1> HIDE DEF q
<1>17. ASSUME NEW m \in 1 .. n, NEW h \in 1 .. n, m < h
       PROVE  <<q[m], q[h]>> \in LaterFirstIn(list)
    <2> DEFINE k == q[m]
               i == q[h]
    <2>1. k \in 1 .. n /\ i \in 1 .. n /\ k = r[u[m]] /\ i = r[u[h]] /\ u[m] \in 1 .. n /\ u[h] \in 1 .. n
        BY <1>15, <1>9
    <2>2. LaterFirst(y[u[m]], y[u[h]])
        BY <1>9, <1>10, <1>17, <2>1
    <2>3. y[u[m]].edit = list[k] /\ y[u[h]].edit = list[i] /\ y[u[m]].orig = u[m] /\ y[u[h]].orig = u[h]
        BY <1>7, <1>11, <2>1, SMTT(30)
    <2> HIDE DEF k, i
    <2>4. PositionLess(list[i].start, list[k].start) \/ (list[k].start = list[i].start /\ u[m] > u[h])
        BY <2>2, <2>3 DEF LaterFirst
    <2>5. ASSUME list[k].start = list[i].start, u[m] > u[h] PROVE k > i
        <3>1. <<i, k>> \in TextEditLessIn(list)
            BY <1>3, <2>1, <2>5
        <3>2. TextEditLess(x[i], x[k])
            BY <1>5, <2>1, <3>1
        <3>3. ~PositionLess(list[i].start, list[k].start)
            BY <1>4, <2>1, <2>5, PlaceOrder
        <3>4. x[i].edit = list[i] /\ x[k].edit = list[k] /\ x[i].orig = i /\ x[k].orig = k
            BY <1>4, <2>1
        <3>5. PositionLess(list[i].end, list[k].end) \/ i < k
            BY <3>2, <3>3, <3>4 DEF TextEditLess
        <3>6. PositionLess(list[i].end, list[k].end) => i < k
            BY <2>1, <2>5, ShorterFirst DEF n
        <3>7. i \in Int /\ k \in Int
            BY <2>1
        <3> QED
            BY <3>5, <3>6, <3>7
    <2>6. LaterFirst(x[k], x[i])
        <3>4. x[i].edit = list[i] /\ x[k].edit = list[k] /\ x[i].orig = i /\ x[k].orig = k
            BY <1>4, <2>1
        <3> QED
            BY <2>4, <2>5, <3>4 DEF LaterFirst
    <2> QED
        BY <1>6, <2>1, <2>6 DEF k, i
<1>18. Lists(q, LaterFirstIn(list), n)
    BY <1>15, <1>16, <1>17 DEF Lists
<1>19. q = p
    <2>1. Orders(LaterFirstIn(list), 1 .. n)
        BY EditOrders DEF n
    <2>2. Lists(p, LaterFirstIn(list), n)
        BY <1>1 DEF Setting, n
    <2> QED
        BY <1>0, <1>18, <2>1, <2>2, ListsOnce
<1>20. ASSUME NEW m \in 1 .. n
       PROVE  Sorted(list)[m].edit \in Edits /\ Sorted(other)[m].edit = Sorted(list)[m].edit
    <2>1. Sorted(other)[m].edit = list[r[u[m]]]
        BY <1>7, <1>14
    <2> QED
        BY <1>4, <1>13, <1>15, <1>19, <2>1
<1> QED
    BY <1>7, <1>13, <1>14, <1>20 DEF n, other

\* A dry run shows what applying gives.
LEMMA ShownIsApplied ==
    ASSUME NEW t \in Text, NEW list \in Seq(Edits), ApplyEdits(t, list).ok
    PROVE  Preview(t, list) = ApplyEdits(t, list)
<1> DEFINE n == Len(list)
           s == Sorted(list)
           o == Sorted(Ordered(list))
           F == Partly(t, s)
           G == Partly(t, o)
<1>1. Meaningful(t, list)
    BY AppliesMeans
<1>2. /\ n \in Nat /\ Len(s) = n /\ Len(o) = n
      /\ \A m \in 1 .. n : s[m].edit \in Edits /\ o[m].edit = s[m].edit
    BY <1>1, SameSorted
<1> HIDE DEF n, s, o
<1>3. Follows(F, t, s)
    BY <1>2, PartlyMeans
<1>4. Follows(G, t, o)
    BY <1>2, PartlyMeans
<1> HIDE DEF F, G
<1>5. F[0] = G[0] /\ \A m \in 1 .. n : F[m] = ApplyOne(F[m - 1], s[m]) /\ G[m] = ApplyOne(G[m - 1], o[m])
    BY <1>2, <1>3, <1>4 DEF Follows
<1>6. ASSUME NEW acc, NEW m \in 1 .. n PROVE ApplyOne(acc, s[m]) = ApplyOne(acc, o[m])
    BY <1>2 DEF ApplyOne
<1> DEFINE T == {m \in Nat : F[m] = G[m]}
<1>7. 0 \in T
    BY <1>5
<1>8. ASSUME NEW k \in 0 .. n - 1, k \in T PROVE k + 1 \in T
    <2>1. k + 1 \in 1 .. n /\ (k + 1) - 1 = k /\ k + 1 \in Nat
        BY <1>2
    <2>2. F[k + 1] = ApplyOne(F[k], s[k + 1]) /\ G[k + 1] = ApplyOne(G[k], o[k + 1])
        BY <1>5, <2>1
    <2>3. ApplyOne(F[k], s[k + 1]) = ApplyOne(F[k], o[k + 1])
        BY <1>6, <2>1
    <2> QED
        BY <1>8, <2>1, <2>2, <2>3
<1>9. T \in SUBSET Nat
    OBVIOUS
<1> HIDE DEF T
<1>10. n \in T
    <2>1. \A k \in 0 .. n : k \in T
        BY <1>2, <1>7, <1>8, <1>9, UpTo
    <2> QED
        BY <1>2, <2>1
<1>11. F[n] = G[n]
    BY <1>10 DEF T
<1>12. Overlaps(s) <=> Overlaps(o)
    <2>1. \A m \in 1 .. n - 1 : o[m].edit = s[m].edit /\ o[m + 1].edit = s[m + 1].edit
        BY <1>2
    <2> QED
        BY <1>2, <2>1 DEF Overlaps
<1>13. ApplyEdits(t, list) = IF Overlaps(s) THEN Rejected(t) ELSE F[n]
    BY <1>2 DEF ApplyEdits, s, F
<1>14. ApplyEdits(t, Ordered(list)) = IF Overlaps(o) THEN Rejected(t) ELSE G[n]
    BY <1>2 DEF ApplyEdits, o, G
<1> QED
    BY <1>11, <1>12, <1>13, <1>14 DEF Preview

(* ------------------------------ extractions ------------------------------- *)

\* A lexeme of two stands at its two places.
LEMMA PairMeans ==
    ASSUME NEW t \in Seq(STRING), NEW k \in 1 .. Len(t), NEW a, NEW b,
           Has(t, k, <<a, b>>)
    PROVE  k + 1 \in 1 .. Len(t) /\ t[k] = a /\ t[k + 1] = b
<1> DEFINE p == <<a, b>>
<1>1. Len(p) = 2 /\ p[1] = a /\ p[2] = b
    OBVIOUS
<1>2. k + Len(p) - 1 <= Len(t) /\ SubSeq(t, k, k + Len(p) - 1) = p
    BY DEF Has
<1> HIDE DEF p
<1>3. k + Len(p) - 1 = k + 1
    BY <1>1
<1>4. k + 1 <= Len(t) /\ SubSeq(t, k, k + 1) = p
    BY <1>2, <1>3
<1>5. SubSeq(t, k, k + 1)[1] = t[k] /\ SubSeq(t, k, k + 1)[2] = t[k + 1]
    <2>1. k \in 1 .. Len(t) + 1 /\ k + 1 \in k - 1 .. Len(t)
        BY <1>4
    <2>2. /\ Len(SubSeq(t, k, k + 1)) = 2
          /\ \A i \in 1 .. 2 : SubSeq(t, k, k + 1)[i] = t[k + i - 1]
        <3> DEFINE u == SubSeq(t, k, k + 1)
        <3>1. (k + 1) - k + 1 = 2
            OBVIOUS
        <3>2. Len(u) = (k + 1) - k + 1 /\ \A i \in 1 .. (k + 1) - k + 1 : u[i] = t[k + i - 1]
            BY <2>1, SubSeqProperties
        <3> HIDE DEF u
        <3>3. Len(u) = 2 /\ \A i \in 1 .. 2 : u[i] = t[k + i - 1]
            BY <3>1, <3>2
        <3> QED
            BY <3>3 DEF u
    <2>3. k + 1 - 1 = k /\ k + 2 - 1 = k + 1 /\ 1 \in 1 .. 2 /\ 2 \in 1 .. 2
        OBVIOUS
    <2> QED
        BY <2>2, <2>3
<1>6. k + 1 \in 1 .. Len(t)
    BY <1>4
<1> QED
    BY <1>1, <1>4, <1>5, <1>6

\* The name that gopls gave is found by the mark that comes before it, or after.
LEMMA PlaceholderMeans ==
    ASSUME NEW texts \in Seq(Seq(STRING)), NEW kind, Shaped(texts, kind)
    PROVE  Placeholder(texts, kind) = "p"
<1> DEFINE Introduces(t) ==
               IF kind = "function"
               THEN \E k \in 1 .. Len(t) - 1 : Has(t, k, <<"func", "p">>)
                                               /\ \A j \in k + 1 .. Len(t) : t[j] # "func"
               ELSE Has(t, 1, <<"p", ":=">>)
           mark == IF kind = "function" THEN "func" ELSE ":="
           name(t) == IF kind = "function" THEN NameAfterFunc(t) ELSE NameBeforeAssign(t)
           names == [m \in DOMAIN texts |-> name(texts[m])]
           named == {m \in DOMAIN texts : names[m] # ""}
<1>1. PICK i \in DOMAIN texts :
          Introduces(texts[i]) /\ \A j \in i + 1 .. Len(texts) : mark \notin ToSet(texts[j])
    BY DEF Shaped
<1>2. DOMAIN texts = 1 .. Len(texts) /\ Len(texts) \in Nat /\ \A m \in DOMAIN texts : texts[m] \in Seq(STRING)
    OBVIOUS
<1>10. \A m \in DOMAIN texts : m \in Int
    BY <1>2
<1>3. IsName("p")
    BY DEF IsName
<1>5. name(texts[i]) = "p"
    <2> DEFINE t == texts[i]
    <2>0. t \in Seq(STRING) /\ Len(t) \in Nat
        BY <1>1, <1>2
    <2>1. CASE kind = "function"
        <3>1. PICK k \in 1 .. Len(t) - 1 : Has(t, k, <<"func", "p">>) /\ \A j \in k + 1 .. Len(t) : t[j] # "func"
            BY <1>1, <2>1
        <3>2. t[k] = "func" /\ t[k + 1] = "p"
            <4>1. k \in 1 .. Len(t)
                BY <2>0
            <4>2. Has(t, k, <<"func", "p">>)
                BY <3>1
            <4> HIDE DEF t
            <4> QED
                BY <2>0, <4>1, <4>2, PairMeans
        <3> DEFINE at == {m \in 1 .. Len(t) - 1 : t[m] = "func" /\ IsName(t[m + 1])}
        <3>3. k \in at /\ \A j \in at : j <= k
            BY <1>3, <2>0, <3>1, <3>2
        <3> HIDE DEF at
        <3>4. (CHOOSE m \in at : \A j \in at : j <= m) = k
            <4>1. \A m \in at : m \in Int
                BY <2>0 DEF at
            <4>2. \A m \in at : (\A j \in at : j <= m) => m = k
                BY <3>3, <4>1
            <4> QED
                BY <3>3, <4>2
        <3> QED
            BY <2>1, <3>2, <3>3, <3>4 DEF NameAfterFunc, at
    <2>2. CASE kind # "function"
        <3>0. Has(t, 1, <<"p", ":=">>)
            BY <1>1, <2>2
        <3>1. 2 \in 1 .. Len(t) /\ t[1] = "p" /\ t[2] = ":="
            <4>1. 1 \in 1 .. Len(t)
                <5>1. Len(<<"p", ":=">>) = 2 /\ 1 + Len(<<"p", ":=">>) - 1 <= Len(t)
                    BY <3>0 DEF Has
                <5> QED
                    BY <2>0, <5>1
            <4>2. 1 + 1 = 2
                OBVIOUS
            <4> HIDE DEF t
            <4>4. 1 + 1 \in 1 .. Len(t) /\ t[1] = "p" /\ t[1 + 1] = ":="
                BY <2>0, <3>0, <4>1, PairMeans
            <4> QED
                BY <4>2, <4>4
        <3> DEFINE at == {m \in 1 .. Len(t) : t[m] = ":="}
        <3>3. 2 \in at /\ 1 \notin at /\ \A m \in at : m \in Int /\ 2 <= m
            BY <2>0, <3>1
        <3> HIDE DEF at
        <3>4. (CHOOSE m \in at : \A j \in at : m <= j) = 2
            <4>1. \A m \in at : (\A j \in at : m <= j) => m = 2
                BY <3>3
            <4> QED
                BY <3>3, <4>1
        <3>5. NameBeforeAssign(t) = t[2 - 1]
            <4> HIDE DEF t
            <4>1. NameBeforeAssign(t) = IF at = {} \/ 2 = 1 \/ ~IsName(t[2 - 1]) THEN "" ELSE t[2 - 1]
                <5>1. NameBeforeAssign(t) =
                         LET first == CHOOSE m \in at : \A j \in at : m <= j
                         IN IF at = {} \/ first = 1 \/ ~IsName(t[first - 1]) THEN "" ELSE t[first - 1]
                    BY DEF NameBeforeAssign, at
                <5> QED
                    BY <3>4, <5>1
            <4>2. t[2 - 1] = "p"
                BY <3>1
            <4> QED
                BY <1>3, <3>3, <4>1, <4>2
        <3> QED
            BY <2>2, <3>1, <3>5
    <2> QED
        BY <2>1, <2>2
<1>6. ASSUME NEW j \in DOMAIN texts, j > i PROVE name(texts[j]) = ""
    <2> DEFINE t == texts[j]
    <2>1. mark \notin ToSet(t) /\ t \in Seq(STRING)
        BY <1>1, <1>2, <1>6
    <2>2. \A m \in 1 .. Len(t) : t[m] # mark
        BY <2>1 DEF ToSet
    <2> HIDE DEF t
    <2>3. CASE kind = "function"
        <3>1. {m \in 1 .. Len(t) - 1 : t[m] = "func" /\ IsName(t[m + 1])} = {}
            BY <2>1, <2>2, <2>3
        <3> QED
            BY <2>3, <3>1 DEF NameAfterFunc, t
    <2>4. CASE kind # "function"
        <3>1. {m \in 1 .. Len(t) : t[m] = ":="} = {}
            BY <2>1, <2>2, <2>4
        <3> QED
            BY <2>4, <3>1 DEF NameBeforeAssign, t
    <2> QED
        BY <2>3, <2>4
<1> HIDE DEF name, mark, Introduces
<1>7. i \in named /\ \A j \in named : j \in Int /\ j <= i
    <2>1. names[i] = name(texts[i]) /\ \A m \in DOMAIN texts : names[m] = name(texts[m])
        BY <1>1
    <2>2. "p" # ""
        OBVIOUS
    <2>3. i \in named
        BY <1>1, <1>5, <2>1, <2>2
    <2>4. ASSUME NEW j \in named PROVE j \in Int /\ j <= i
        <3>1. j \in DOMAIN texts /\ names[j] # ""
            OBVIOUS
        <3>2. ~(j > i)
            BY <1>6, <2>1, <3>1
        <3> QED
            <4> HIDE DEF named, names
            <4>1. i \in Int /\ j \in Int
                BY <1>1, <1>10, <3>1
            <4> QED
                BY <3>2, <4>1
    <2> QED
        BY <2>3, <2>4
<1>8. Max(named) = i
    <2> HIDE DEF named
    <2>1. \A m \in named : (\A j \in named : m >= j) => m = i
        BY <1>7
    <2>2. \A j \in named : i >= j
        BY <1>7
    <2> QED
        BY <1>7, <2>1, <2>2 DEF Max
<1>9. Placeholder(texts, kind) = IF named = {} THEN "" ELSE names[Max(named)]
    BY DEF Placeholder, name
<1> QED
    BY <1>1, <1>5, <1>7, <1>8, <1>9

\* What an extraction is given the user's name in.
LEMMA ExtractMeans ==
    ASSUME NEW texts \in Seq(Seq(STRING)), NEW kind, Shaped(texts, kind)
    PROVE  \A i \in DOMAIN texts : \A k \in DOMAIN texts[i] :
              Extract(texts, kind, "new")[i][k] = IF texts[i][k] = "p" THEN "new" ELSE texts[i][k]
<1>1. Extract(texts, kind, "new") = RewritePlaceholder(texts, "p", "new")
    BY PlaceholderMeans DEF Extract
<1> QED
    BY <1>1 DEF RewritePlaceholder

(* -------------------------------- scanning -------------------------------- *)

\* The two characters a and b stand at p.
Pair(t, p, a, b) == p < Len(t) /\ t[p] = a /\ t[p + 1] = b

\* A lexeme of two characters is where the two characters are.
LEMMA HasPair ==
    ASSUME NEW t \in Text, NEW p \in 1 .. Len(t), NEW a, NEW b
    PROVE  Has(t, p, <<a, b>>) <=> Pair(t, p, a, b)
<1>0. Len(t) \in Nat /\ t \in Seq(STRING)
    BY DEF Text
<1>1. ASSUME Has(t, p, <<a, b>>) PROVE Pair(t, p, a, b)
    <2>1. p + 1 \in 1 .. Len(t) /\ t[p] = a /\ t[p + 1] = b
        BY <1>0, <1>1, PairMeans
    <2> QED
        BY <1>0, <2>1 DEF Pair
<1>2. ASSUME Pair(t, p, a, b) PROVE Has(t, p, <<a, b>>)
    <2> DEFINE x == <<a, b>>
               u == SubSeq(t, p, p + 1)
    <2>1. Len(x) = 2 /\ x[1] = a /\ x[2] = b /\ DOMAIN x = 1 .. 2
        OBVIOUS
    <2>2. p \in Int /\ p + 1 \in Int /\ p + 1 <= Len(t) /\ t[p] = a /\ t[p + 1] = b
        BY <1>0, <1>2 DEF Pair
    <2>3. \A i \in p .. p + 1 : t[i] \in STRING
        BY <1>0, <2>2
    <2>4. u \in Seq(STRING) /\ Len(u) = (p + 1) - p + 1 /\ \A i \in 1 .. (p + 1) - p + 1 : u[i] = t[p + i - 1]
        BY <2>2, <2>3, SubSeqProperties
    <2>5. (p + 1) - p + 1 = 2 /\ p + 1 - 1 = p /\ p + 2 - 1 = p + 1
        BY <2>2
    <2>6. Len(u) = 2 /\ u[1] = a /\ u[2] = b
        <3>1. u[1] = t[p + 1 - 1] /\ u[2] = t[p + 2 - 1] /\ Len(u) = 2
            <4>1. 1 \in 1 .. (p + 1) - p + 1 /\ 2 \in 1 .. (p + 1) - p + 1
                BY <2>5
            <4> HIDE DEF u
            <4> QED
                BY <2>4, <2>5, <4>1
        <3> HIDE DEF u
        <3> QED
            BY <2>2, <2>5, <3>1
    <2>7. u = x
        <3> HIDE DEF u
        <3>1. DOMAIN u = 1 .. 2 /\ u = [i \in 1 .. 2 |-> u[i]]
            BY <2>4, <2>6
        <3>2. \A i \in 1 .. 2 : i = 1 \/ i = 2
            OBVIOUS
        <3> QED
            BY <2>6, <3>1, <3>2
    <2>8. p + Len(x) - 1 = p + 1
        BY <2>1, <2>2
    <2> HIDE DEF x
    <2> QED
        BY <2>2, <2>7, <2>8 DEF Has, x
<1> QED
    BY <1>1, <1>2

\* The places of a scanner in a text.
Spots(t) == [pos : 1 .. Len(t) + 1, state : ScanStates]
\* What the scanner does at p in the state s.
StepsTo(t, p, s, to) ==
    /\ to \in Spots(t) /\ to.pos \in {p + 1, p + 2}
    /\ s = "code" =>
          /\ Pair(t, p, "/", "/") => to.pos = p + 2 /\ to.state = "line"
          /\ Pair(t, p, "/", "*") => to.pos = p + 2 /\ to.state = "block"
          /\ ~Pair(t, p, "/", "/") /\ ~Pair(t, p, "/", "*") =>
                to.pos = p + 1 /\ to.state = IF t[p] \in {"q", "s", "r"} THEN t[p] ELSE "code"
    /\ s = "line" => to.pos = p + 1 /\ to.state = IF t[p] = "n" THEN "code" ELSE s
    /\ s = "block" => /\ Pair(t, p, "*", "/") => to.pos = p + 2 /\ to.state = "code"
                      /\ ~Pair(t, p, "*", "/") => to.pos = p + 1 /\ to.state = s
    /\ s = "r" => to.pos = p + 1 /\ to.state = IF t[p] = "r" THEN "code" ELSE s
    /\ s \in {"q", "s"} =>
          /\ t[p] = "e" /\ p < Len(t) /\ t[p + 1] # "n" => to.pos = p + 2 /\ to.state = s
          /\ ~(t[p] = "e" /\ p < Len(t) /\ t[p + 1] # "n") =>
                to.pos = p + 1 /\ to.state = IF t[p] \in {s, "n"} THEN "code" ELSE s

\* One step of the scanner.
LEMMA ScanMeans ==
    ASSUME NEW t \in Text, NEW p \in 1 .. Len(t), NEW s \in ScanStates
    PROVE  StepsTo(t, p, s, Scan(t, p, s))
<1>0. Len(t) \in Nat /\ p \in Nat /\ p <= Len(t)
    BY DEF Text
<1>1. /\ Has(t, p, <<"/", "/">>) <=> Pair(t, p, "/", "/")
      /\ Has(t, p, <<"/", "*">>) <=> Pair(t, p, "/", "*")
      /\ Has(t, p, <<"*", "/">>) <=> Pair(t, p, "*", "/")
    BY HasPair
<1>2. \A a, b : Pair(t, p, a, b) => p < Len(t)
    BY DEF Pair
<1>3. ~(Pair(t, p, "/", "/") /\ Pair(t, p, "/", "*"))
    BY DEF Pair
<1>4. \A i \in 1 .. Len(t) + 1, x \in ScanStates :
         Goto(i, x) \in Spots(t) /\ Goto(i, x).pos = i /\ Goto(i, x).state = x
    BY DEF Goto, Spots
<1>5. p + 1 \in 1 .. Len(t) + 1 /\ (p < Len(t) => p + 2 \in 1 .. Len(t) + 1)
    BY <1>0
<1>6. ScanStates = {"code", "line", "block", "q", "s", "r"}
    BY DEF ScanStates
<1>7. CASE s = "code"
    <2>1. Scan(t, p, s) = ScanCode(t, p)
        BY <1>7 DEF Scan
    <2>2. CASE Pair(t, p, "/", "/")
        <3>1. Scan(t, p, s) = Goto(p + 2, "line")
            BY <1>1, <2>1, <2>2 DEF ScanCode
        <3> QED
            BY <1>2, <1>3, <1>4, <1>5, <1>6, <1>7, <2>2, <3>1 DEF StepsTo
    <2>3. CASE Pair(t, p, "/", "*")
        <3>1. Scan(t, p, s) = Goto(p + 2, "block")
            BY <1>1, <1>3, <2>1, <2>3 DEF ScanCode
        <3> QED
            BY <1>2, <1>3, <1>4, <1>5, <1>6, <1>7, <2>3, <3>1 DEF StepsTo
    <2>4. CASE ~Pair(t, p, "/", "/") /\ ~Pair(t, p, "/", "*")
        <3>1. Scan(t, p, s) = Goto(p + 1, IF t[p] \in {"q", "s", "r"} THEN t[p] ELSE "code")
            BY <1>1, <2>1, <2>4 DEF ScanCode
        <3>2. (IF t[p] \in {"q", "s", "r"} THEN t[p] ELSE "code") \in ScanStates
            BY <1>6
        <3> QED
            BY <1>4, <1>5, <1>7, <2>4, <3>1, <3>2 DEF StepsTo
    <2> QED
        BY <2>2, <2>3, <2>4
<1>8. CASE s = "line"
    <2>1. Scan(t, p, s) = Goto(p + 1, IF t[p] = "n" THEN "code" ELSE s)
        BY <1>8 DEF Scan
    <2>2. (IF t[p] = "n" THEN "code" ELSE s) \in ScanStates
        BY <1>6
    <2> QED
        BY <1>4, <1>5, <1>8, <2>1, <2>2 DEF StepsTo
<1>9. CASE s = "block"
    <2>1. Scan(t, p, s) = IF Pair(t, p, "*", "/") THEN Goto(p + 2, "code") ELSE Goto(p + 1, s)
        BY <1>1, <1>9 DEF Scan
    <2> QED
        BY <1>2, <1>4, <1>5, <1>6, <1>9, <2>1 DEF StepsTo
<1>10. CASE s = "r"
    <2>1. Scan(t, p, s) = Goto(p + 1, IF t[p] = "r" THEN "code" ELSE s)
        BY <1>10 DEF Scan
    <2>2. (IF t[p] = "r" THEN "code" ELSE s) \in ScanStates
        BY <1>6
    <2> QED
        BY <1>4, <1>5, <1>10, <2>1, <2>2 DEF StepsTo
<1>11. CASE s \in {"q", "s"}
    <2>1. Scan(t, p, s) = ScanQuoted(t, p, s)
        BY <1>11 DEF Scan
    <2>2. CASE t[p] = "e" /\ p < Len(t) /\ t[p + 1] # "n"
        <3>1. Scan(t, p, s) = Goto(p + 2, s)
            BY <2>1, <2>2 DEF ScanQuoted
        <3> QED
            BY <1>4, <1>5, <1>11, <2>2, <3>1 DEF StepsTo
    <2>3. CASE ~(t[p] = "e" /\ p < Len(t) /\ t[p + 1] # "n")
        <3>1. Scan(t, p, s) = Goto(p + 1, IF t[p] \in {s, "n"} THEN "code" ELSE s)
            BY <2>1, <2>3 DEF ScanQuoted
        <3>2. (IF t[p] \in {s, "n"} THEN "code" ELSE s) \in ScanStates
            BY <1>6
        <3> QED
            BY <1>4, <1>5, <1>11, <2>3, <3>1, <3>2 DEF StepsTo
    <2> QED
        BY <2>2, <2>3
<1> QED
    BY <1>6, <1>7, <1>8, <1>9, <1>10, <1>11

\* What the walk of a scanner is: its first place and its steps.
Walks(at, t, G) ==
    /\ at \in [0 .. Len(t) -> Spots(t)]
    /\ at[0].pos = 1 /\ at[0].state = "code"
    /\ \A k \in 1 .. Len(t) : at[k] = IF at[k - 1].pos > Len(t) THEN at[k - 1] ELSE G[at[k - 1]]

\* A walk exists.
LEMMA WalkExists ==
    ASSUME NEW t \in Text, NEW G,
           \A x \in Spots(t) : x.pos <= Len(t) => G[x] \in Spots(t)
    PROVE  \E at : Walks(at, t, G)
<1> DEFINE n == Len(t)
           S == Spots(t)
           b == Goto(1, "code")
           F == [m \in 1 .. n |-> [x \in S |-> IF x.pos > n THEN x ELSE G[x]]]
<1>0. n \in Nat
    BY DEF Text
<1>1. b \in S /\ b.pos = 1 /\ b.state = "code"
    BY <1>0 DEF Goto, Spots, ScanStates
<1>2. \A x \in S : x.pos \in Int
    BY <1>0 DEF Spots
<1>3. \A x \in S : (IF x.pos > n THEN x ELSE G[x]) \in S
    BY <1>0, <1>2
<1>4. F \in [1 .. n -> [S -> S]]
    BY <1>3
<1>5. \A m \in 1 .. n : \A x \in S : F[m][x] = IF x.pos > n THEN x ELSE G[x]
    OBVIOUS
<1> HIDE DEF F, S, b
<1>6. PICK at : Solves(at, n, S, b, F)
    BY <1>0, <1>1, <1>4, Recursion
<1>7. at \in [0 .. n -> S] /\ at[0] = b /\ \A m \in 1 .. n : at[m] = F[m][at[m - 1]]
    BY <1>6 DEF Solves
<1>8. ASSUME NEW m \in 1 .. n PROVE at[m] = IF at[m - 1].pos > n THEN at[m - 1] ELSE G[at[m - 1]]
    <2>1. at[m - 1] \in S
        BY <1>0, <1>7
    <2> QED
        BY <1>5, <1>7, <2>1
<1> QED
    BY <1>1, <1>7, <1>8 DEF Walks, S

\* The walk of the scanner is that of the recursion.
LEMMA VisitsMean ==
    ASSUME NEW t \in Text
    PROVE  Walks(Visits(t), t, [x \in Spots(t) |-> Scan(t, x.pos, x.state)])
<1> DEFINE n == Len(t)
           G == [x \in Spots(t) |-> Scan(t, x.pos, x.state)]
           Body(f) == [k \in 0 .. n |->
                          IF k = 0 THEN Goto(1, "code")
                          ELSE IF f[k - 1].pos > n THEN f[k - 1]
                          ELSE Scan(t, f[k - 1].pos, f[k - 1].state)]
<1>0. n \in Nat
    BY DEF Text
<1>1. Visits(t) = CHOOSE f : f = Body(f)
    BY DEF Visits, Walk
<1>2. ASSUME NEW x \in Spots(t) PROVE /\ G[x] = Scan(t, x.pos, x.state) /\ x.pos \in Int
                                      /\ x.pos <= n => G[x] \in Spots(t)
    <2>1. x.pos \in 1 .. n + 1 /\ x.state \in ScanStates
        BY DEF Spots
    <2>2. x.pos <= n => Scan(t, x.pos, x.state) \in Spots(t)
        <3>1. x.pos <= n => x.pos \in 1 .. n
            BY <1>0, <2>1
        <3> QED
            BY <2>1, <3>1, ScanMeans DEF StepsTo
    <2> QED
        BY <1>0, <2>1, <2>2
<1> HIDE DEF G
<1>3. PICK at : Walks(at, t, G)
    BY <1>2, WalkExists
<1>4. at = Body(at)
    <2>1. /\ at \in [0 .. n -> Spots(t)] /\ at[0].pos = 1 /\ at[0].state = "code"
          /\ \A k \in 1 .. n : at[k] = IF at[k - 1].pos > n THEN at[k - 1] ELSE G[at[k - 1]]
        BY <1>3 DEF Walks
    <2>2. at[0] = Goto(1, "code")
        <3>1. at[0] \in Spots(t)
            BY <1>0, <2>1
        <3> QED
            BY <2>1, <3>1 DEF Spots, Goto
    <2>3. ASSUME NEW k \in 1 .. n
          PROVE  at[k] = IF at[k - 1].pos > n THEN at[k - 1] ELSE Scan(t, at[k - 1].pos, at[k - 1].state)
        <3>1. at[k - 1] \in Spots(t)
            BY <1>0, <2>1
        <3> QED
            BY <1>2, <2>1, <3>1
    <2>4. \A k \in 0 .. n : at[k] = Body(at)[k]
        <3>1. \A k \in 0 .. n : k = 0 \/ k \in 1 .. n
            BY <1>0
        <3> QED
            BY <2>2, <2>3, <3>1
    <2>5. at = [k \in 0 .. n |-> at[k]]
        BY <2>1
    <2> QED
        BY <2>4, <2>5
<1> DEFINE A == Visits(t)
<1>5. A = Body(A)
    BY <1>1, <1>4
<1> HIDE DEF A
<1>6. /\ DOMAIN A = 0 .. n /\ A[0] = Goto(1, "code")
      /\ \A k \in 1 .. n : A[k] = IF A[k - 1].pos > n THEN A[k - 1]
                                  ELSE Scan(t, A[k - 1].pos, A[k - 1].state)
    <2>1. \A k \in 1 .. n : k \in 0 .. n /\ k # 0
        BY <1>0
    <2> QED
        BY <1>0, <1>5, <2>1
<1>7. A[0] \in Spots(t) /\ A[0].pos = 1 /\ A[0].state = "code"
    BY <1>0, <1>6 DEF Goto, Spots, ScanStates
<1>8. \A k \in 0 .. n : A[k] \in Spots(t)
    <2> DEFINE T == {k \in Nat : A[k] \in Spots(t)}
    <2>1. 0 \in T
        BY <1>7
    <2>2. ASSUME NEW k \in 0 .. n - 1, k \in T PROVE k + 1 \in T
        <3>1. k + 1 \in 1 .. n /\ (k + 1) - 1 = k /\ k + 1 \in Nat
            BY <1>0
        <3>2. A[k + 1] = IF A[k].pos > n THEN A[k] ELSE Scan(t, A[k].pos, A[k].state)
            BY <1>6, <3>1
        <3>3. A[k] \in Spots(t)
            BY <2>2
        <3>4. A[k + 1] \in Spots(t)
            BY <1>0, <1>2, <3>2, <3>3
        <3> QED
            BY <3>1, <3>4
    <2>3. T \in SUBSET Nat
        OBVIOUS
    <2> HIDE DEF T
    <2>4. \A k \in 0 .. n : k \in T
        BY <1>0, <2>1, <2>2, <2>3, UpTo
    <2> QED
        BY <2>4 DEF T
<1>9. A \in [0 .. n -> Spots(t)]
    <2>1. A = [k \in 0 .. n |-> A[k]]
        BY <1>5
    <2> QED
        BY <1>8, <2>1
<1>10. ASSUME NEW k \in 1 .. n PROVE A[k] = IF A[k - 1].pos > n THEN A[k - 1] ELSE G[A[k - 1]]
    <2>1. A[k - 1] \in Spots(t)
        BY <1>0, <1>8
    <2> QED
        BY <1>2, <1>6, <2>1
<1>11. Walks(A, t, G)
    BY <1>7, <1>9, <1>10 DEF Walks
<1> QED
    BY <1>11 DEF A, G

\* The regions of a text: the openers that no other region holds.
IsRegions(t, R) ==
    /\ R \in SUBSET Openers(t)
    /\ \A i \in Openers(t) : i \in R <=> \A r \in R : r < i => EndOf(t, r) < i

\* There are such regions.
LEMMA RegionsExist ==
    ASSUME NEW t \in Text
    PROVE  IsRegions(t, Regions(t))
<1> DEFINE n == Len(t)
           O == Openers(t)
           S == SUBSET (1 .. n)
           Free(i, A) == \A r \in A : r < i => EndOf(t, r) < i
           F == [m \in 1 .. n |-> [A \in S |-> IF m \in O /\ Free(m, A) THEN A \cup {m} ELSE A]]
<1>0. n \in Nat
    BY DEF Text
<1>1. {} \in S /\ O \in S
    BY DEF Openers
<1>2. F \in [1 .. n -> [S -> S]]
    OBVIOUS
<1>3. \A m \in 1 .. n : \A A \in S : F[m][A] = IF m \in O /\ Free(m, A) THEN A \cup {m} ELSE A
    OBVIOUS
<1> HIDE DEF F
<1>4. PICK f : Solves(f, n, S, {}, F)
    <2> HIDE DEF S
    <2> QED
        BY <1>0, <1>1, <1>2, Recursion
<1>5. /\ f \in [0 .. n -> S] /\ f[0] = {}
      /\ \A m \in 1 .. n : f[m] = F[m][f[m - 1]]
    BY <1>4 DEF Solves
<1>6. ASSUME NEW m \in 1 .. n
      PROVE  f[m] = IF m \in O /\ Free(m, f[m - 1]) THEN f[m - 1] \cup {m} ELSE f[m - 1]
    <2>1. f[m - 1] \in S /\ f[m] = F[m][f[m - 1]]
        BY <1>0, <1>5
    <2> HIDE DEF Free, S, O
    <2> QED
        BY <1>3, <2>1
<1> DEFINE Grown(m) == /\ f[m] \in SUBSET (O \cap 1 .. m)
                       /\ \A i \in O \cap 1 .. m : i \in f[m] <=> Free(i, f[m])
           T == {m \in Nat : Grown(m)}
<1>7. 0 \in T
    BY <1>0, <1>5
<1>8. ASSUME NEW m \in 0 .. n - 1, m \in T PROVE m + 1 \in T
    <2>1. m + 1 \in 1 .. n /\ (m + 1) - 1 = m /\ m + 1 \in Nat /\ m \in Nat
        BY <1>0
    <2>2. f[m + 1] = IF m + 1 \in O /\ Free(m + 1, f[m]) THEN f[m] \cup {m + 1} ELSE f[m]
        <3> HIDE DEF Free
        <3> QED
            BY <1>6, <2>1
    <2>3. f[m] \in SUBSET (O \cap 1 .. m)
        BY <1>8
    <2>4. f[m + 1] \in SUBSET (O \cap 1 .. m + 1)
        <3> HIDE DEF Free, O
        <3> QED
            BY <2>1, <2>2, <2>3
    <2>5. ASSUME NEW i \in O \cap 1 .. m + 1 PROVE i \in f[m + 1] <=> Free(i, f[m + 1])
        <3>0. i \in Nat /\ i <= m + 1
            BY <2>1
        <3>1. Free(i, f[m + 1]) <=> Free(i, f[m])
            <4>1. \A r \in f[m + 1] : r \in f[m] \/ r = m + 1
                BY <2>2
            <4>2. \A r \in f[m] : r \in f[m + 1]
                BY <2>2
            <4> QED
                BY <3>0, <2>1, <4>1, <4>2
        <3>2. CASE i = m + 1
            <4>1. i \notin f[m]
                BY <2>1, <2>3, <3>2
            <4> HIDE DEF Free
            <4> QED
                BY <2>2, <3>1, <3>2, <4>1
        <3>3. CASE i # m + 1
            <4>1. i \in O \cap 1 .. m
                BY <2>1, <3>0, <3>3
            <4>2. i \in f[m] <=> Free(i, f[m])
                BY <1>8, <4>1
            <4>3. i \in f[m + 1] <=> i \in f[m]
                BY <2>2, <3>3
            <4> HIDE DEF Free
            <4> QED
                BY <3>1, <4>2, <4>3
        <3> QED
            BY <3>2, <3>3
    <2> HIDE DEF Free, O
    <2> QED
        BY <2>1, <2>4, <2>5
<1>9. T \in SUBSET Nat
    OBVIOUS
<1>10. n \in T
    <2> HIDE DEF T
    <2>1. \A m \in 0 .. n : m \in T
        BY <1>0, <1>7, <1>8, <1>9, UpTo
    <2> QED
        BY <1>0, <2>1
<1>11. IsRegions(t, f[n])
    <2>1. O \cap 1 .. n = O
        BY <1>1
    <2> QED
        BY <1>10, <2>1 DEF IsRegions
<1>12. Regions(t) = CHOOSE R \in SUBSET O : IsRegions(t, R)
    <2>1. \A R \in SUBSET O : IsRegions(t, R) <=> \A i \in O : i \in R <=> \A r \in R : r < i => EndOf(t, r) < i
        BY DEF IsRegions
    <2> QED
        BY <2>1 DEF Regions
<1>13. f[n] \in SUBSET O
    BY <1>11 DEF IsRegions
<1> HIDE DEF O
<1> QED
    BY <1>11, <1>12, <1>13

\* The last place before the end of the line.
LEMMA LineEndAtMeans ==
    ASSUME NEW t \in Text, NEW i \in 1 .. Len(t)
    PROVE  /\ LineEndAt(t, i) \in i .. Len(t)
           /\ LineEndAt(t, i) = Len(t) \/ t[LineEndAt(t, i) + 1] = "n"
           /\ \A j \in i + 1 .. LineEndAt(t, i) : t[j] # "n"
<1> DEFINE S == {j \in i .. Len(t) : j = Len(t) \/ t[j + 1] = "n"}
           e == LineEndAt(t, i)
<1>0. Len(t) \in Nat /\ i \in Nat /\ i <= Len(t)
    BY DEF Text
<1>1. Len(t) \in S /\ S \in SUBSET Nat
    BY <1>0
<1>2. e = Least(S)
    BY DEF LineEndAt
<1> HIDE DEF S
<1>3. e \in S /\ \A k \in S : e <= k
    BY <1>1, <1>2, FirstMeans
<1>4. e \in i .. Len(t) /\ (e = Len(t) \/ t[e + 1] = "n")
    BY <1>3 DEF S
<1> HIDE DEF e
<1>5. ASSUME NEW j \in i + 1 .. e, t[j] = "n" PROVE FALSE
    <2>1. j - 1 \in i .. Len(t) /\ (j - 1) + 1 = j /\ j - 1 < e /\ j - 1 \in Nat /\ e \in Nat
        BY <1>0, <1>4
    <2>2. j - 1 \in S
        BY <1>5, <2>1 DEF S
    <2> QED
        BY <1>3, <2>1, <2>2
<1> QED
    BY <1>4, <1>5 DEF e

\* Where a place without a newline before it leaves the end of the line.
LEMMA LineEndsAfter ==
    ASSUME NEW t \in Text, NEW i \in 1 .. Len(t), NEW p \in i + 1 .. Len(t) + 1,
           \A j \in i + 1 .. p - 1 : t[j] # "n"
    PROVE  /\ p - 1 <= LineEndAt(t, i)
           /\ p <= Len(t) => (t[p] = "n" <=> LineEndAt(t, i) = p - 1)
<1> DEFINE e == LineEndAt(t, i)
<1>0. Len(t) \in Nat /\ i \in Nat /\ p \in Nat
    BY DEF Text
<1>1. e \in i .. Len(t) /\ (e = Len(t) \/ t[e + 1] = "n") /\ \A j \in i + 1 .. e : t[j] # "n"
    BY LineEndAtMeans
<1> HIDE DEF e
<1>2. p - 1 <= e
    <2> SUFFICES ASSUME e < p - 1 PROVE FALSE
        BY <1>0, <1>1
    <2>1. e + 1 \in i + 1 .. p - 1 /\ e # Len(t)
        BY <1>0, <1>1
    <2> QED
        BY <1>1, <2>1
<1>3. ASSUME p <= Len(t) PROVE t[p] = "n" <=> e = p - 1
    <2>1. t[p] = "n" => e = p - 1
        <3>1. p <= e => p \in i + 1 .. e
            BY <1>0, <1>1
        <3> QED
            BY <1>0, <1>1, <1>2, <3>1
    <2>2. e = p - 1 => t[p] = "n"
        <3>1. e = p - 1 => e # Len(t) /\ e + 1 = p
            BY <1>0, <1>1, <1>3
        <3> QED
            BY <1>1, <3>1
    <2> QED
        BY <2>1, <2>2
<1> QED
    BY <1>2, <1>3 DEF e

\* Whether a place in a literal is escaped depends on the one before it.
LEMMA EscapedNext ==
    ASSUME NEW t \in Text, NEW i \in 1 .. Len(t)
    PROVE  /\ ~Escaped(t, i, i + 1)
           /\ \A j \in i + 1 .. Len(t) : Escaped(t, i, j + 1) <=> t[j] = "e" /\ ~Escaped(t, i, j)
<1> DEFINE run(j) == {k \in i .. j - 1 : \A m \in k + 1 .. j - 1 : t[m] = "e"}
<1>0. Len(t) \in Nat /\ i \in Nat
    BY DEF Text
<1>1. \A j \in Int : Escaped(t, i, j) <=> Cardinality(run(j)) % 2 = 0
    BY DEF Escaped
<1>2. ASSUME NEW j \in i + 1 .. Len(t) + 1 PROVE IsFiniteSet(run(j)) /\ Cardinality(run(j)) \in Nat
    <2>1. IsFiniteSet(i .. j - 1)
        BY <1>0, FS_Interval
    <2>2. IsFiniteSet(run(j))
        BY <2>1, FS_Subset
    <2> HIDE DEF run
    <2> QED
        BY <2>2, FS_CardinalityType
<1>3. ASSUME NEW j \in Int, j > i PROVE Cardinality({j}) = 1
    BY FS_Singleton
<1>4. ~Escaped(t, i, i + 1)
    <2>1. run(i + 1) = {i}
        BY <1>0
    <2>2. Cardinality({i}) = 1
        BY FS_Singleton
    <2>3. 1 % 2 # 0
        OBVIOUS
    <2> HIDE DEF run
    <2>4. Escaped(t, i, i + 1) <=> Cardinality(run(i + 1)) % 2 = 0
        BY <1>0, <1>1
    <2> QED
        BY <2>1, <2>2, <2>3, <2>4
<1>5. ASSUME NEW j \in i + 1 .. Len(t)
      PROVE  Escaped(t, i, j + 1) <=> t[j] = "e" /\ ~Escaped(t, i, j)
    <2>0. j \in Int /\ j + 1 \in Int /\ (j + 1) - 1 = j /\ j \in i + 1 .. Len(t) + 1 /\ i < j
        BY <1>0
    <2>1. CASE t[j] = "e"
        <3>1. run(j + 1) = run(j) \cup {j}
            <4>1. ASSUME NEW k \in run(j) PROVE k \in run(j + 1)
                <5>1. \A m \in k + 1 .. j : m = j \/ m \in k + 1 .. j - 1
                    BY <2>0
                <5> QED
                    BY <2>0, <2>1, <5>1
            <4>2. j \in run(j + 1)
                BY <2>0
            <4>3. ASSUME NEW k \in run(j + 1), k # j PROVE k \in run(j)
                <5>1. \A m \in k + 1 .. j - 1 : m \in k + 1 .. j
                    BY <2>0
                <5> QED
                    BY <2>0, <4>3, <5>1
            <4> HIDE DEF run
            <4> QED
                BY <4>1, <4>2, <4>3
        <3>2. j \notin run(j)
            BY <2>0
        <3> HIDE DEF run
        <3>3. Cardinality(run(j + 1)) = Cardinality(run(j)) + 1
            BY <1>2, <2>0, <3>1, <3>2, FS_AddElement
        <3> DEFINE c == Cardinality(run(j))
        <3>4. c \in Nat
            BY <1>2, <2>0
        <3> HIDE DEF c
        <3>5. (c + 1) % 2 = 0 <=> ~(c % 2 = 0)
            BY <3>4
        <3> QED
            BY <1>1, <2>0, <2>1, <3>3, <3>5 DEF c
    <2>2. CASE t[j] # "e"
        <3>1. run(j + 1) = {j}
            <4>1. j \in run(j + 1)
                BY <2>0
            <4>2. ASSUME NEW k \in run(j + 1), k # j PROVE FALSE
                <5>1. j \in k + 1 .. (j + 1) - 1
                    BY <2>0, <4>2
                <5> QED
                    BY <2>2, <5>1
            <4> HIDE DEF run
            <4> QED
                BY <4>1, <4>2
        <3>2. Cardinality({j}) = 1 /\ 1 % 2 # 0
            BY FS_Singleton
        <3> HIDE DEF run
        <3>3. Escaped(t, i, j + 1) <=> Cardinality(run(j + 1)) % 2 = 0
            BY <1>1, <2>0
        <3> QED
            BY <2>2, <3>1, <3>2, <3>3
    <2> QED
        BY <2>1, <2>2
<1> QED
    BY <1>4, <1>5

\* What closes a comment or literal.
LEMMA ClosersMean ==
    ASSUME NEW t \in Text, NEW r \in 1 .. Len(t)
    PROVE  /\ t[r] \in {"q", "s"} =>
                 Closers(t, r) = {j \in r + 1 .. LineEndAt(t, r) : t[j] = t[r] /\ ~Escaped(t, r, j)}
           /\ t[r] = "r" => Closers(t, r) = {j \in r + 1 .. Len(t) : t[j] = "r"}
           /\ Pair(t, r, "/", "*") =>
                 Closers(t, r) = {j \in r + 3 .. Len(t) : t[j - 1] = "*" /\ t[j] = "/"}
           /\ Pair(t, r, "/", "/") => Closers(t, r) = {LineEndAt(t, r)}
<1>0. Has(t, r, <<"/", "*">>) <=> Pair(t, r, "/", "*")
    BY HasPair
<1>1. CASE t[r] \in {"q", "s"}
    BY <1>0, <1>1 DEF Closers, Pair
<1>2. CASE t[r] = "r"
    BY <1>0, <1>2 DEF Closers, Pair
<1>3. CASE Pair(t, r, "/", "*")
    BY <1>0, <1>3 DEF Closers, Pair
<1>4. CASE Pair(t, r, "/", "/")
    BY <1>0, <1>4 DEF Closers, Pair
<1> QED
    BY <1>1, <1>2, <1>3, <1>4, <1>0 DEF Pair

\* Where it ends is its first closer.
LEMMA EndOfMeans ==
    ASSUME NEW t \in Text, NEW r \in 1 .. Len(t), Closers(t, r) \in SUBSET Nat
    PROVE  /\ Closers(t, r) # {} =>
                 EndOf(t, r) \in Closers(t, r) /\ \A j \in Closers(t, r) : EndOf(t, r) <= j
           /\ Closers(t, r) = {} =>
                 EndOf(t, r) = IF t[r] \in {"q", "s"} THEN LineEndAt(t, r) ELSE Len(t)
<1>1. Closers(t, r) # {} => EndOf(t, r) = Least(Closers(t, r))
    BY DEF EndOf
<1>2. Closers(t, r) # {} => /\ Least(Closers(t, r)) \in Closers(t, r)
                            /\ \A j \in Closers(t, r) : Least(Closers(t, r)) <= j
    BY FirstMeans
<1>3. Closers(t, r) = {} => EndOf(t, r) = IF t[r] \in {"q", "s"} THEN LineEndAt(t, r) ELSE Len(t)
    BY DEF EndOf
<1> QED
    BY <1>1, <1>2, <1>3

\* The comment or literal that opens at r is open before p, where the scanner is in
\* the state s.
Inside(t, r, p, s) ==
    /\ r \in 1 .. Len(t) /\ p \in r + 1 .. Len(t) + 1
    /\ s \in {"line", "block", "r", "q", "s"}
    /\ s = "line" => Pair(t, r, "/", "/") /\ \A j \in r + 1 .. p - 1 : t[j] # "n"
    /\ s = "block" => /\ Pair(t, r, "/", "*") /\ r + 2 <= p
                      /\ \A j \in r + 2 .. p - 1 : ~Pair(t, j, "*", "/")
    /\ s = "r" => t[r] = "r" /\ \A j \in r + 1 .. p - 1 : t[j] # "r"
    /\ s \in {"q", "s"} =>
          /\ t[r] = s
          /\ \A j \in r + 1 .. p - 1 : t[j] # "n" /\ (t[j] = s => Escaped(t, r, j))
          /\ p <= Len(t) /\ t[p] # "n" => ~Escaped(t, r, p)

\* While it is open it has not ended.
LEMMA OpenGoesOn ==
    ASSUME NEW t \in Text, NEW r, NEW p, NEW s, Inside(t, r, p, s)
    PROVE  EndOf(t, r) \in r .. Len(t) /\ p - 1 <= EndOf(t, r)
<1>0. Len(t) \in Nat /\ r \in 1 .. Len(t) /\ r \in Nat /\ p \in r + 1 .. Len(t) + 1 /\ p \in Nat
    BY DEF Inside, Text
<1> DEFINE C == Closers(t, r)
           e == LineEndAt(t, r)
<1>1. CASE s = "line"
    <2>1. Pair(t, r, "/", "/") /\ \A j \in r + 1 .. p - 1 : t[j] # "n"
        BY <1>1 DEF Inside
    <2>2. p - 1 <= e
        BY <1>0, <2>1, LineEndsAfter
    <2>3. e \in r .. Len(t)
        BY <1>0, LineEndAtMeans
    <2>4. C = {e}
        BY <1>0, <2>1, ClosersMean
    <2>5. C \in SUBSET Nat /\ C # {}
        BY <1>0, <2>3, <2>4
    <2>6. EndOf(t, r) \in C
        BY <1>0, <2>5, EndOfMeans
    <2> QED
        BY <2>2, <2>3, <2>4, <2>6
<1>2. CASE s = "block"
    <2>1. Pair(t, r, "/", "*") /\ \A j \in r + 2 .. p - 1 : ~Pair(t, j, "*", "/")
        BY <1>2 DEF Inside
    <2>2. C = {j \in r + 3 .. Len(t) : t[j - 1] = "*" /\ t[j] = "/"}
        BY <1>0, <2>1, ClosersMean
    <2>3. ASSUME NEW j \in C PROVE j \in r .. Len(t) /\ p - 1 <= j
        <3>1. j \in r + 3 .. Len(t) /\ t[j - 1] = "*" /\ t[j] = "/" /\ j - 1 \in Nat /\ (j - 1) + 1 = j
            BY <1>0, <2>2
        <3>2. Pair(t, j - 1, "*", "/")
            BY <1>0, <3>1 DEF Pair
        <3>3. j - 1 \notin r + 2 .. p - 1
            BY <2>1, <3>2
        <3> QED
            BY <1>0, <3>1, <3>3
    <2>4. C \in SUBSET Nat
        BY <1>0, <2>2
    <2>5. t[r] \notin {"q", "s"}
        BY <2>1 DEF Pair
    <2> HIDE DEF C
    <2>6. EndOf(t, r) \in C \/ EndOf(t, r) = Len(t)
        BY <1>0, <2>4, <2>5, EndOfMeans DEF C
    <2> QED
        BY <1>0, <2>3, <2>6
<1>3. CASE s = "r"
    <2>1. t[r] = "r" /\ \A j \in r + 1 .. p - 1 : t[j] # "r"
        BY <1>3 DEF Inside
    <2>2. C = {j \in r + 1 .. Len(t) : t[j] = "r"}
        BY <1>0, <2>1, ClosersMean
    <2>3. ASSUME NEW j \in C PROVE j \in r .. Len(t) /\ p - 1 <= j
        BY <1>0, <2>1, <2>2
    <2>4. C \in SUBSET Nat
        BY <1>0, <2>2
    <2>5. t[r] \notin {"q", "s"}
        BY <2>1
    <2> HIDE DEF C
    <2>6. EndOf(t, r) \in C \/ EndOf(t, r) = Len(t)
        BY <1>0, <2>4, <2>5, EndOfMeans DEF C
    <2> QED
        BY <1>0, <2>3, <2>6
<1>4. CASE s \in {"q", "s"}
    <2>1. /\ t[r] = s
          /\ \A j \in r + 1 .. p - 1 : t[j] # "n" /\ (t[j] = s => Escaped(t, r, j))
        BY <1>4 DEF Inside
    <2>2. p - 1 <= e
        BY <1>0, <2>1, LineEndsAfter
    <2>3. e \in r .. Len(t)
        BY <1>0, LineEndAtMeans
    <2>4. C = {j \in r + 1 .. e : t[j] = t[r] /\ ~Escaped(t, r, j)}
        BY <1>0, <1>4, <2>1, ClosersMean
    <2> HIDE DEF e
    <2>5. ASSUME NEW j \in C PROVE j \in r .. Len(t) /\ p - 1 <= j
        <3>1. j \in r + 1 .. e /\ t[j] = s /\ ~Escaped(t, r, j)
            BY <2>1, <2>4
        <3>2. j \notin r + 1 .. p - 1
            BY <2>1, <3>1
        <3> QED
            BY <1>0, <2>3, <3>1, <3>2
    <2>6. C \in SUBSET Nat
        BY <1>0, <2>4, <2>3
    <2> HIDE DEF C
    <2>7. EndOf(t, r) \in C \/ EndOf(t, r) = e
        BY <1>0, <1>4, <2>1, <2>6, EndOfMeans DEF C, e
    <2> QED
        BY <1>0, <2>2, <2>3, <2>5, <2>7
<1> QED
    BY <1>1, <1>2, <1>3, <1>4 DEF Inside

\* Where the scanner goes back to code the comment or literal has ended: there, or
\* with the line before.
LEMMA Closes ==
    ASSUME NEW t \in Text, NEW r, NEW p, NEW s, Inside(t, r, p, s), p <= Len(t),
           NEW to, StepsTo(t, p, s, to), to.state = "code"
    PROVE  \/ EndOf(t, r) = to.pos - 1
           \/ EndOf(t, r) = p - 1 /\ to.pos = p + 1 /\ t[p] = "n"
<1>0. /\ Len(t) \in Nat /\ r \in 1 .. Len(t) /\ r \in Nat /\ p \in r + 1 .. Len(t) + 1 /\ p \in Nat
      /\ p \in 1 .. Len(t)
    BY DEF Inside, Text
<1> DEFINE C == Closers(t, r)
           e == LineEndAt(t, r)
<1>1. CASE s = "line"
    <2>1. Pair(t, r, "/", "/") /\ \A j \in r + 1 .. p - 1 : t[j] # "n"
        BY <1>1 DEF Inside
    <2>2. to.pos = p + 1 /\ t[p] = "n"
        BY <1>1 DEF StepsTo
    <2>3. e = p - 1
        BY <1>0, <2>1, <2>2, LineEndsAfter
    <2>4. C = {e}
        BY <1>0, <2>1, ClosersMean
    <2>5. C \in SUBSET Nat /\ C # {}
        BY <1>0, <2>3, <2>4
    <2>6. EndOf(t, r) \in C
        BY <1>0, <2>5, EndOfMeans
    <2> QED
        BY <2>2, <2>3, <2>4, <2>6
<1>2. CASE s = "block"
    <2>1. Pair(t, r, "/", "*") /\ r + 2 <= p /\ \A j \in r + 2 .. p - 1 : ~Pair(t, j, "*", "/")
        BY <1>2 DEF Inside
    <2>2. C = {j \in r + 3 .. Len(t) : t[j - 1] = "*" /\ t[j] = "/"}
        BY <1>0, <2>1, ClosersMean
    <2>3. to.pos = p + 2 /\ Pair(t, p, "*", "/")
        BY <1>2 DEF StepsTo
    <2>4. p + 1 \in C
        <3>1. p + 1 \in r + 3 .. Len(t) /\ (p + 1) - 1 = p /\ t[p] = "*" /\ t[p + 1] = "/"
            BY <1>0, <2>1, <2>3 DEF Pair
        <3> QED
            BY <2>2, <3>1
    <2>5. C \in SUBSET Nat
        BY <1>0, <2>2
    <2> HIDE DEF C
    <2>6. EndOf(t, r) \in C /\ EndOf(t, r) <= p + 1
        BY <1>0, <2>4, <2>5, EndOfMeans DEF C
    <2>7. p - 1 <= EndOf(t, r)
        BY OpenGoesOn
    <2> DEFINE d == EndOf(t, r)
    <2>8. d \in r + 3 .. Len(t) /\ t[d - 1] = "*" /\ t[d] = "/"
        BY <2>2, <2>6
    <2> HIDE DEF d
    <2>9. d - 1 \notin r + 2 .. p - 1
        <3>1. (d - 1) + 1 = d /\ d - 1 < Len(t)
            BY <1>0, <2>8
        <3>2. Pair(t, d - 1, "*", "/")
            BY <2>8, <3>1 DEF Pair
        <3> QED
            BY <2>1, <3>2
    <2>10. d = p + 1
        BY <1>0, <2>6, <2>7, <2>8, <2>9 DEF d
    <2> QED
        BY <1>0, <2>3, <2>10 DEF d
<1>3. CASE s = "r"
    <2>1. t[r] = "r" /\ \A j \in r + 1 .. p - 1 : t[j] # "r"
        BY <1>3 DEF Inside
    <2>2. C = {j \in r + 1 .. Len(t) : t[j] = "r"}
        BY <1>0, <2>1, ClosersMean
    <2>3. to.pos = p + 1 /\ t[p] = "r"
        BY <1>3 DEF StepsTo
    <2>4. p \in C /\ \A j \in C : p <= j
        BY <1>0, <2>1, <2>2, <2>3
    <2>5. C \in SUBSET Nat
        BY <1>0, <2>2
    <2> HIDE DEF C
    <2>6. EndOf(t, r) \in C /\ EndOf(t, r) <= p
        BY <1>0, <2>4, <2>5, EndOfMeans DEF C
    <2>7. EndOf(t, r) = p
        <3>1. EndOf(t, r) \in Nat /\ p <= EndOf(t, r)
            BY <2>4, <2>5, <2>6
        <3> QED
            BY <1>0, <2>6, <3>1
    <2> QED
        BY <1>0, <2>3, <2>7
<1>4. CASE s \in {"q", "s"}
    <2>1. /\ t[r] = s
          /\ \A j \in r + 1 .. p - 1 : t[j] # "n" /\ (t[j] = s => Escaped(t, r, j))
          /\ t[p] # "n" => ~Escaped(t, r, p)
        BY <1>4 DEF Inside
    <2>2. p - 1 <= e /\ (t[p] = "n" <=> e = p - 1)
        BY <1>0, <2>1, LineEndsAfter
    <2>3. e \in r .. Len(t)
        BY <1>0, LineEndAtMeans
    <2>4. C = {j \in r + 1 .. e : t[j] = t[r] /\ ~Escaped(t, r, j)}
        BY <1>0, <1>4, <2>1, ClosersMean
    <2>5. to.pos = p + 1 /\ t[p] \in {s, "n"}
        <3>1. s # "code"
            BY <1>4
        <3> QED
            BY <1>4, <3>1 DEF StepsTo
    <2> HIDE DEF e
    <2>6. C \in SUBSET Nat
        BY <1>0, <2>3, <2>4
    <2>7. \A j \in C : p <= j
        <3>1. ASSUME NEW j \in C PROVE p <= j
            <4>1. j \in r + 1 .. e /\ t[j] = s /\ ~Escaped(t, r, j)
                BY <2>1, <2>4
            <4>2. j \notin r + 1 .. p - 1
                BY <2>1, <4>1
            <4> QED
                BY <1>0, <2>3, <4>1, <4>2
        <3> QED
            BY <3>1
    <2>8. CASE t[p] = "n"
        <3>1. C = {}
            <4>1. e = p - 1
                BY <2>2, <2>8
            <4>2. ASSUME NEW j \in C PROVE FALSE
                BY <1>0, <2>4, <2>7, <4>1
            <4> QED
                BY <4>2
        <3> HIDE DEF C
        <3>2. EndOf(t, r) = e
            BY <1>0, <1>4, <2>1, <2>6, <3>1, EndOfMeans DEF C, e
        <3> QED
            BY <2>2, <2>5, <2>8, <3>2
    <2>9. CASE t[p] # "n"
        <3>1. t[p] = s /\ ~Escaped(t, r, p) /\ p <= e
            BY <1>0, <2>1, <2>2, <2>3, <2>5, <2>9
        <3>2. p \in C
            BY <1>0, <2>1, <2>3, <2>4, <3>1
        <3> HIDE DEF C
        <3>3. EndOf(t, r) \in C /\ EndOf(t, r) <= p
            BY <1>0, <2>6, <3>2, EndOfMeans DEF C
        <3>4. EndOf(t, r) \in Nat /\ p <= EndOf(t, r)
            BY <2>6, <2>7, <3>3
        <3> QED
            BY <1>0, <2>5, <3>3, <3>4
    <2> QED
        BY <2>8, <2>9
<1> QED
    BY <1>1, <1>2, <1>3, <1>4 DEF Inside

\* Otherwise it is still open.
LEMMA StaysOpen ==
    ASSUME NEW t \in Text, NEW r, NEW p, NEW s, Inside(t, r, p, s), p <= Len(t),
           NEW to, StepsTo(t, p, s, to), to.state # "code"
    PROVE  to.state = s /\ Inside(t, r, to.pos, s)
<1>0. /\ Len(t) \in Nat /\ r \in 1 .. Len(t) /\ r \in Nat /\ p \in r + 1 .. Len(t) + 1 /\ p \in Nat
      /\ p \in 1 .. Len(t) /\ s \in {"line", "block", "r", "q", "s"}
    BY DEF Inside, Text
<1>00. to.pos \in {p + 1, p + 2} /\ to.pos \in 1 .. Len(t) + 1
    BY DEF StepsTo, Spots
<1>01. to.pos \in r + 1 .. Len(t) + 1
    BY <1>0, <1>00
<1>1. CASE s = "line"
    <2>1. to.pos = p + 1 /\ t[p] # "n" /\ to.state = s
        BY <1>1 DEF StepsTo
    <2>2. Pair(t, r, "/", "/") /\ \A j \in r + 1 .. p - 1 : t[j] # "n"
        BY <1>1 DEF Inside
    <2>3. \A j \in r + 1 .. (p + 1) - 1 : j = p \/ j \in r + 1 .. p - 1
        BY <1>0
    <2>4. \A j \in r + 1 .. to.pos - 1 : t[j] # "n"
        BY <2>1, <2>2, <2>3
    <2> QED
        BY <1>0, <1>01, <1>1, <2>1, <2>2, <2>4 DEF Inside
<1>2. CASE s = "block"
    <2>1. to.pos = p + 1 /\ ~Pair(t, p, "*", "/") /\ to.state = s
        BY <1>2 DEF StepsTo
    <2>2. Pair(t, r, "/", "*") /\ r + 2 <= p /\ \A j \in r + 2 .. p - 1 : ~Pair(t, j, "*", "/")
        BY <1>2 DEF Inside
    <2>3. \A j \in r + 2 .. (p + 1) - 1 : j = p \/ j \in r + 2 .. p - 1
        BY <1>0
    <2>4. r + 2 <= to.pos /\ \A j \in r + 2 .. to.pos - 1 : ~Pair(t, j, "*", "/")
        BY <1>0, <2>1, <2>2, <2>3
    <2> QED
        BY <1>0, <1>01, <1>2, <2>1, <2>2, <2>4 DEF Inside
<1>3. CASE s = "r"
    <2>1. to.pos = p + 1 /\ t[p] # "r" /\ to.state = s
        BY <1>3 DEF StepsTo
    <2>2. t[r] = "r" /\ \A j \in r + 1 .. p - 1 : t[j] # "r"
        BY <1>3 DEF Inside
    <2>3. \A j \in r + 1 .. (p + 1) - 1 : j = p \/ j \in r + 1 .. p - 1
        BY <1>0
    <2>4. \A j \in r + 1 .. to.pos - 1 : t[j] # "r"
        BY <2>1, <2>2, <2>3
    <2> QED
        BY <1>0, <1>01, <1>3, <2>1, <2>2, <2>4 DEF Inside
<1>4. CASE s \in {"q", "s"}
    <2>1. /\ t[r] = s
          /\ \A j \in r + 1 .. p - 1 : t[j] # "n" /\ (t[j] = s => Escaped(t, r, j))
          /\ t[p] # "n" => ~Escaped(t, r, p)
        BY <1>0, <1>4 DEF Inside
    <2>2. s # "e" /\ s # "n"
        BY <1>4
    <2>3. \A j \in r + 1 .. Len(t) : Escaped(t, r, j + 1) <=> t[j] = "e" /\ ~Escaped(t, r, j)
        BY <1>0, EscapedNext
    <2>4. p \in r + 1 .. Len(t)
        BY <1>0
    <2>5. CASE t[p] = "e" /\ p < Len(t) /\ t[p + 1] # "n"
        <3>1. to.pos = p + 2 /\ to.state = s
            BY <1>4, <2>5 DEF StepsTo
        <3>2. ~Escaped(t, r, p)
            BY <2>1, <2>5
        <3>3. Escaped(t, r, p + 1)
            BY <2>3, <2>4, <2>5, <3>2
        <3>4. ~Escaped(t, r, p + 2)
            <4>1. p + 1 \in r + 1 .. Len(t) /\ (p + 1) + 1 = p + 2
                BY <1>0, <2>5
            <4> QED
                BY <2>3, <3>3, <4>1
        <3>5. \A j \in r + 1 .. (p + 2) - 1 : j = p \/ j = p + 1 \/ j \in r + 1 .. p - 1
            BY <1>0
        <3>6. \A j \in r + 1 .. to.pos - 1 : t[j] # "n" /\ (t[j] = s => Escaped(t, r, j))
            BY <2>1, <2>2, <2>5, <3>1, <3>3, <3>5
        <3> QED
            BY <1>0, <1>01, <1>4, <2>1, <3>1, <3>4, <3>6 DEF Inside
    <2>6. CASE ~(t[p] = "e" /\ p < Len(t) /\ t[p + 1] # "n")
        <3>1. to.pos = p + 1 /\ to.state = s /\ t[p] \notin {s, "n"}
            BY <1>4, <2>6 DEF StepsTo
        <3>2. p + 1 <= Len(t) /\ t[p + 1] # "n" => ~Escaped(t, r, p + 1)
            <4>1. p + 1 <= Len(t) => p < Len(t)
                BY <1>0
            <4> QED
                BY <2>3, <2>4, <2>6, <4>1
        <3>3. \A j \in r + 1 .. (p + 1) - 1 : j = p \/ j \in r + 1 .. p - 1
            BY <1>0
        <3>4. \A j \in r + 1 .. to.pos - 1 : t[j] # "n" /\ (t[j] = s => Escaped(t, r, j))
            BY <2>1, <3>1, <3>3
        <3> QED
            BY <1>0, <1>01, <1>4, <2>1, <3>1, <3>2, <3>4 DEF Inside
    <2> QED
        BY <2>5, <2>6
<1> QED
    BY <1>0, <1>1, <1>2, <1>3, <1>4

\* From code the scanner goes on in code, or opens a comment or literal.
LEMMA Opens ==
    ASSUME NEW t \in Text, NEW p \in 1 .. Len(t), NEW to, StepsTo(t, p, "code", to)
    PROVE  /\ to.state = "code" => p \notin Openers(t) /\ to.pos = p + 1
           /\ to.state # "code" => p \in Openers(t) /\ Inside(t, p, to.pos, to.state)
<1>0. Len(t) \in Nat /\ p \in Nat
    BY DEF Text
<1>00. to.pos \in {p + 1, p + 2} /\ to.pos \in 1 .. Len(t) + 1
    BY DEF StepsTo, Spots
<1>01. to.pos \in p + 1 .. Len(t) + 1
    BY <1>0, <1>00
<1>1. p \in Openers(t) <=> t[p] \in {"q", "s", "r"} \/ Pair(t, p, "/", "/") \/ Pair(t, p, "/", "*")
    BY HasPair DEF Openers
<1>2. CASE Pair(t, p, "/", "/")
    <2>1. to.pos = p + 2 /\ to.state = "line"
        BY <1>2 DEF StepsTo
    <2>2. \A j \in p + 1 .. (p + 2) - 1 : j = p + 1
        BY <1>0
    <2>3. t[p + 1] # "n"
        BY <1>2 DEF Pair
    <2>4. \A j \in p + 1 .. to.pos - 1 : t[j] # "n"
        BY <2>1, <2>2, <2>3
    <2> QED
        BY <1>01, <1>1, <1>2, <2>1, <2>4 DEF Inside
<1>3. CASE Pair(t, p, "/", "*")
    <2>1. to.pos = p + 2 /\ to.state = "block"
        BY <1>3 DEF StepsTo
    <2>2. \A j \in p + 2 .. to.pos - 1 : FALSE
        BY <1>0, <2>1
    <2>3. p + 2 <= to.pos
        BY <1>0, <2>1
    <2> QED
        BY <1>01, <1>1, <1>3, <2>1, <2>2, <2>3 DEF Inside
<1>4. CASE ~Pair(t, p, "/", "/") /\ ~Pair(t, p, "/", "*")
    <2>1. to.pos = p + 1 /\ to.state = IF t[p] \in {"q", "s", "r"} THEN t[p] ELSE "code"
        BY <1>4 DEF StepsTo
    <2>2. \A j \in p + 1 .. to.pos - 1 : FALSE
        BY <1>0, <2>1
    <2>3. ~Escaped(t, p, to.pos)
        BY <2>1, EscapedNext
    <2>4. CASE t[p] \in {"q", "s", "r"}
        <3>1. to.state = t[p] /\ to.state \in {"q", "s", "r"}
            BY <2>1, <2>4
        <3>2. Inside(t, p, to.pos, to.state)
            BY <1>01, <2>2, <2>3, <3>1 DEF Inside
        <3> QED
            BY <1>1, <2>4, <3>1, <3>2
    <2>5. CASE t[p] \notin {"q", "s", "r"}
        BY <1>1, <1>4, <2>1, <2>5
    <2> QED
        BY <2>4, <2>5
<1> QED
    BY <1>2, <1>3, <1>4

\* The walk goes forward, a character or two at a time.
Forward(t, G) == \A x \in Spots(t) : x.pos <= Len(t) => G[x] \in Spots(t) /\ G[x].pos \in {x.pos + 1, x.pos + 2}
\* The step from k to k + 1 goes over i.
Crosses(at, t, i, k) == k \in 0 .. Len(t) - 1 /\ at[k].pos <= i /\ i < at[k + 1].pos

\* So it comes over every place of the text.
LEMMA WalkCovers ==
    ASSUME NEW t \in Text, NEW G, Forward(t, G), NEW at, Walks(at, t, G), NEW i \in 1 .. Len(t)
    PROVE  \E k : Crosses(at, t, i, k)
<1> DEFINE n == Len(t)
           T == {k \in Nat : /\ at[k].pos >= k + 1 \/ at[k].pos > n
                             /\ i < at[k].pos => \E m : Crosses(at, t, i, m)}
<1>0. n \in Nat /\ i \in Nat /\ i <= n /\ i >= 1
    BY DEF Text
<1>1. /\ at \in [0 .. n -> Spots(t)] /\ at[0].pos = 1
      /\ \A k \in 1 .. n : at[k] = IF at[k - 1].pos > n THEN at[k - 1] ELSE G[at[k - 1]]
    BY DEF Walks
<1>2. 0 \in T
    BY <1>0, <1>1
<1>3. ASSUME NEW k \in 0 .. n - 1, k \in T PROVE k + 1 \in T
    <2>1. k + 1 \in 1 .. n /\ (k + 1) - 1 = k /\ k + 1 \in Nat /\ k \in 0 .. n /\ k \in Nat
        BY <1>0
    <2>2. at[k + 1] = IF at[k].pos > n THEN at[k] ELSE G[at[k]]
        BY <1>1, <2>1
    <2>3. at[k] \in Spots(t) /\ at[k].pos \in Nat
        BY <1>0, <1>1, <2>1 DEF Spots
    <2>4. /\ at[k].pos >= k + 1 \/ at[k].pos > n
          /\ i < at[k].pos => \E m : Crosses(at, t, i, m)
        BY <1>3
    <2>5. CASE at[k].pos > n
        <3>1. at[k + 1] = at[k] /\ \E m : Crosses(at, t, i, m)
            BY <1>0, <2>2, <2>3, <2>4, <2>5
        <3> QED
            BY <2>1, <2>5, <3>1
    <2>6. CASE ~(at[k].pos > n)
        <3>1. at[k + 1].pos \in {at[k].pos + 1, at[k].pos + 2}
            BY <1>0, <2>2, <2>3, <2>6 DEF Forward
        <3>2. at[k + 1].pos >= (k + 1) + 1
            BY <2>1, <2>3, <2>4, <2>6, <3>1
        <3>3. ASSUME i < at[k + 1].pos PROVE \E m : Crosses(at, t, i, m)
            <4>1. CASE at[k].pos <= i
                BY <3>3, <4>1 DEF Crosses
            <4>2. CASE ~(at[k].pos <= i)
                BY <1>0, <2>3, <2>4, <4>2
            <4> QED
                BY <4>1, <4>2
        <3> QED
            BY <2>1, <3>2, <3>3
    <2> QED
        BY <2>5, <2>6
<1>4. T \in SUBSET Nat
    OBVIOUS
<1>5. n \in T
    <2> HIDE DEF T
    <2>1. \A k \in 0 .. n : k \in T
        BY <1>0, <1>2, <1>3, <1>4, UpTo
    <2> QED
        BY <1>0, <2>1
<1>6. at[n] \in Spots(t) /\ at[n].pos \in Nat
    BY <1>0, <1>1 DEF Spots
<1>7. i < at[n].pos
    <2>1. at[n].pos >= n + 1 \/ at[n].pos > n
        BY <1>5
    <2> QED
        BY <1>0, <1>6, <2>1
<1> QED
    BY <1>5, <1>7

\* A comment or literal ends somewhere.
LEMMA EndsSomewhere ==
    ASSUME NEW t \in Text, NEW r \in Openers(t)
    PROVE  EndOf(t, r) \in Nat
<1>0. Len(t) \in Nat /\ r \in 1 .. Len(t) /\ r \in Nat
    BY DEF Text, Openers
<1>1. LineEndAt(t, r) \in r .. Len(t)
    BY <1>0, LineEndAtMeans
<1>2. t[r] \in {"q", "s", "r"} \/ Pair(t, r, "/", "/") \/ Pair(t, r, "/", "*")
    BY <1>0, HasPair DEF Openers
<1>3. Closers(t, r) \in SUBSET Nat
    <2>1. CASE t[r] \in {"q", "s"}
        BY <1>0, <2>1, ClosersMean
    <2>2. CASE t[r] = "r"
        BY <1>0, <2>2, ClosersMean
    <2>3. CASE Pair(t, r, "/", "*")
        BY <1>0, <2>3, ClosersMean
    <2>4. CASE Pair(t, r, "/", "/")
        BY <1>0, <1>1, <2>4, ClosersMean
    <2> QED
        BY <1>2, <2>1, <2>2, <2>3, <2>4
<1> QED
    BY <1>0, <1>1, <1>3, EndOfMeans

\* What the scanner knows at p in the state s: that every comment or literal before
\* has ended, or one that is open.
Knows(t, R, p, s) ==
    IF s = "code" THEN \A r \in R : r < p => EndOf(t, r) < p ELSE \E r \in R : Inside(t, r, p, s)

\* It goes on knowing it.
LEMMA KnowsOn ==
    ASSUME NEW t \in Text, NEW R, IsRegions(t, R), NEW p \in 1 .. Len(t), NEW s, Knows(t, R, p, s),
           NEW to, StepsTo(t, p, s, to)
    PROVE  Knows(t, R, to.pos, to.state)
<1>0. Len(t) \in Nat /\ p \in Nat /\ R \in SUBSET Openers(t) /\ Openers(t) \in SUBSET (1 .. Len(t))
    BY DEF Text, IsRegions, Openers
<1>00. to.pos \in {p + 1, p + 2} /\ to.pos \in Nat
    BY <1>0 DEF StepsTo, Spots
<1>01. \A i \in Openers(t) : i \in R <=> \A r \in R : r < i => EndOf(t, r) < i
    BY DEF IsRegions
<1>1. CASE s = "code"
    <2>1. \A r \in R : r < p => EndOf(t, r) < p
        BY <1>1 DEF Knows
    <2>2. StepsTo(t, p, "code", to)
        BY <1>1
    <2>3. CASE to.state = "code"
        <3>1. p \notin R /\ to.pos = p + 1
            BY <1>0, <2>2, <2>3, Opens
        <3>2. ASSUME NEW r \in R, r < to.pos PROVE EndOf(t, r) < to.pos
            <4>1. r < p
                BY <1>0, <3>1, <3>2
            <4>2. EndOf(t, r) < p /\ EndOf(t, r) \in Int
                BY <1>0, <2>1, <4>1, EndsSomewhere
            <4> QED
                BY <1>0, <3>1, <4>2
        <3> QED
            BY <2>3, <3>2 DEF Knows
    <2>4. CASE to.state # "code"
        <3>1. p \in Openers(t) /\ Inside(t, p, to.pos, to.state)
            BY <2>2, <2>4, Opens
        <3>2. p \in R
            BY <1>01, <2>1, <3>1
        <3> QED
            BY <2>4, <3>1, <3>2 DEF Knows
    <2> QED
        BY <2>3, <2>4
<1>2. CASE s # "code"
    <2>1. PICK r \in R : Inside(t, r, p, s)
        BY <1>2 DEF Knows
    <2>2. CASE to.state = "code"
        <3>1. \/ EndOf(t, r) = to.pos - 1
              \/ EndOf(t, r) = p - 1 /\ to.pos = p + 1 /\ t[p] = "n"
            BY <1>0, <2>1, <2>2, Closes
        <3>2. r \in Nat /\ r < p
            BY <1>0, <2>1 DEF Inside
        <3>3. ASSUME NEW q \in R, q < to.pos PROVE EndOf(t, q) < to.pos
            <4>0. q \in Nat /\ q \in Openers(t) /\ r \in Openers(t)
                BY <1>0
            <4>1. CASE q = r
                BY <1>0, <1>00, <3>1, <4>1
            <4>2. CASE q < r
                <5>1. EndOf(t, q) < r /\ EndOf(t, q) \in Int
                    BY <1>0, <1>01, <4>0, <4>2, EndsSomewhere
                <5> QED
                    BY <1>0, <1>00, <3>2, <5>1
            <4>3. CASE r < q
                <5>1. EndOf(t, r) < q /\ EndOf(t, r) \in Int
                    BY <1>0, <1>01, <4>0, <4>3, EndsSomewhere
                <5>2. q = p /\ t[p] = "n"
                    BY <1>0, <1>00, <3>1, <3>3, <4>0, <5>1
                <5>3. q \notin Openers(t)
                    BY <5>2, HasPair, <1>0 DEF Openers, Pair
                <5> QED
                    BY <4>0, <5>3
            <4> QED
                BY <3>2, <4>0, <4>1, <4>2, <4>3
        <3> QED
            BY <2>2, <3>3 DEF Knows
    <2>3. CASE to.state # "code"
        <3>1. to.state = s /\ Inside(t, r, to.pos, s)
            BY <1>0, <2>1, <2>3, StaysOpen
        <3> QED
            BY <1>2, <3>1 DEF Knows
    <2> QED
        BY <2>2, <2>3
<1> QED
    BY <1>1, <1>2

\* At every place the scanner knows what is open.
LEMMA VisitsKnow ==
    ASSUME NEW t \in Text, NEW R, IsRegions(t, R), NEW k \in 0 .. Len(t)
    PROVE  Knows(t, R, Visits(t)[k].pos, Visits(t)[k].state)
<1> DEFINE n == Len(t)
           at == Visits(t)
           G == [x \in Spots(t) |-> Scan(t, x.pos, x.state)]
           T == {m \in Nat : Knows(t, R, at[m].pos, at[m].state)}
<1>0. n \in Nat /\ R \in SUBSET (1 .. n)
    BY DEF Text, IsRegions, Openers
<1>1. /\ at \in [0 .. n -> Spots(t)] /\ at[0].pos = 1 /\ at[0].state = "code"
      /\ \A m \in 1 .. n : at[m] = IF at[m - 1].pos > n THEN at[m - 1] ELSE G[at[m - 1]]
    BY VisitsMean DEF Walks
<1>2. \A x \in Spots(t) : G[x] = Scan(t, x.pos, x.state)
    OBVIOUS
<1> HIDE DEF at, G
<1>3. 0 \in T
    <2>1. \A r \in R : ~(r < 1)
        BY <1>0
    <2> QED
        BY <1>1, <2>1 DEF Knows
<1>4. ASSUME NEW m \in 0 .. n - 1, m \in T PROVE m + 1 \in T
    <2>1. m + 1 \in 1 .. n /\ (m + 1) - 1 = m /\ m + 1 \in Nat /\ m \in 0 .. n
        BY <1>0
    <2>2. at[m + 1] = IF at[m].pos > n THEN at[m] ELSE G[at[m]]
        BY <1>1, <2>1
    <2>3. at[m] \in Spots(t) /\ at[m].pos \in Nat /\ at[m].pos \in 1 .. n + 1 /\ at[m].state \in ScanStates
        BY <1>0, <1>1, <2>1 DEF Spots
    <2>4. Knows(t, R, at[m].pos, at[m].state)
        BY <1>4
    <2>5. CASE at[m].pos > n
        BY <2>1, <2>2, <2>4, <2>5
    <2>6. CASE ~(at[m].pos > n)
        <3>1. at[m].pos \in 1 .. n /\ at[m + 1] = Scan(t, at[m].pos, at[m].state)
            BY <1>0, <1>2, <2>2, <2>3, <2>6
        <3>2. StepsTo(t, at[m].pos, at[m].state, at[m + 1])
            BY <2>3, <3>1, ScanMeans
        <3>3. Knows(t, R, at[m + 1].pos, at[m + 1].state)
            BY <2>4, <3>1, <3>2, KnowsOn
        <3> QED
            BY <2>1, <3>3
    <2> QED
        BY <2>5, <2>6
<1>5. T \in SUBSET Nat
    OBVIOUS
<1> HIDE DEF T
<1>6. \A m \in 0 .. n : m \in T
    BY <1>0, <1>3, <1>4, <1>5, UpTo
<1> QED
    BY <1>6 DEF T, at

\* One step of the scanner from a place in the text.
LEMMA VisitsMove ==
    ASSUME NEW t \in Text, NEW k \in 0 .. Len(t) - 1, Visits(t)[k].pos <= Len(t)
    PROVE  /\ Visits(t)[k] \in Spots(t) /\ Visits(t)[k].pos \in 1 .. Len(t) /\ Visits(t)[k].state \in ScanStates
           /\ Visits(t)[k + 1] = Scan(t, Visits(t)[k].pos, Visits(t)[k].state)
           /\ StepsTo(t, Visits(t)[k].pos, Visits(t)[k].state, Visits(t)[k + 1])
<1> DEFINE n == Len(t)
           at == Visits(t)
           G == [x \in Spots(t) |-> Scan(t, x.pos, x.state)]
<1>0. n \in Nat
    BY DEF Text
<1>1. Walks(at, t, G)
    BY VisitsMean
<1>2. \A x \in Spots(t) : G[x] = Scan(t, x.pos, x.state)
    OBVIOUS
<1> HIDE DEF G, at
<1>3. /\ at \in [0 .. n -> Spots(t)]
      /\ \A m \in 1 .. n : at[m] = IF at[m - 1].pos > n THEN at[m - 1] ELSE G[at[m - 1]]
    BY <1>1 DEF Walks
<1>4. k \in 0 .. n /\ k + 1 \in 1 .. n /\ (k + 1) - 1 = k
    BY <1>0
<1>5. at[k] \in Spots(t) /\ at[k].pos \in 1 .. n + 1 /\ at[k].state \in ScanStates
    BY <1>3, <1>4 DEF Spots
<1>6. at[k].pos <= n
    BY DEF at
<1>7. at[k].pos \in 1 .. n /\ ~(at[k].pos > n)
    BY <1>0, <1>5, <1>6
<1>8. at[k + 1] = Scan(t, at[k].pos, at[k].state)
    BY <1>2, <1>3, <1>4, <1>5, <1>7
<1>9. StepsTo(t, at[k].pos, at[k].state, at[k + 1])
    BY <1>5, <1>7, <1>8, ScanMeans
<1> QED
    BY <1>5, <1>7, <1>8, <1>9 DEF at

\* A place that holds no newline and from which the scanner goes on in code is code.
LEMMA PlainIsCode ==
    ASSUME NEW t \in Text, NEW i \in 1 .. Len(t), t[i] # "n", Scan(t, i, "code") = Goto(i + 1, "code"),
           NEW k \in 0 .. Len(t), Visits(t)[k] = Goto(i, "code")
    PROVE  i \in InCode(t)
<1> DEFINE R == Regions(t)
<1>0. Len(t) \in Nat
    BY DEF Text
<1>1. IsRegions(t, R)
    BY RegionsExist
<1>2. R \in SUBSET Openers(t)
    BY <1>1 DEF IsRegions
<1>3. Goto(i, "code").pos = i /\ Goto(i, "code").state = "code" /\ Goto(i + 1, "code").state = "code"
    BY DEF Goto
<1>4. Knows(t, R, i, "code")
    BY <1>1, <1>3, VisitsKnow
<1> HIDE DEF R
<1>5. \A r \in R : r < i => EndOf(t, r) < i
    BY <1>4 DEF Knows
<1>6. i \notin Openers(t)
    <2>1. StepsTo(t, i, "code", Goto(i + 1, "code"))
        BY ScanMeans DEF ScanStates
    <2> QED
        BY <1>3, <2>1, Opens
<1>7. ASSUME NEW r \in R, i \in r .. EndOf(t, r) PROVE FALSE
    <2>1. r \in Nat /\ i \in Nat /\ r # i /\ EndOf(t, r) \in Nat
        BY <1>0, <1>2, <1>6, EndsSomewhere DEF Openers
    <2> QED
        BY <1>5, <1>7, <2>1
<1> QED
    BY <1>7 DEF InCode, R

\* Of the places that a step crosses only one that is read as code is code.
LEMMA CodeCrossed ==
    ASSUME NEW t \in Text, NEW i \in 1 .. Len(t), NEW k, Crosses(Visits(t), t, i, k)
    PROVE  i \in InCode(t) <=> /\ t[i] # "n" /\ Visits(t)[k] = Goto(i, "code")
                               /\ Visits(t)[k + 1] = Goto(i + 1, "code")
<1> DEFINE n == Len(t)
           at == Visits(t)
           R == Regions(t)
           p == at[k].pos
           s == at[k].state
           to == at[k + 1]
<1>0. n \in Nat /\ i \in Nat /\ i <= n
    BY DEF Text
<1>1. IsRegions(t, R)
    BY RegionsExist
<1>2. k \in 0 .. n - 1 /\ k \in 0 .. n /\ p <= i /\ i < to.pos
    BY <1>0 DEF Crosses
<1>3. Knows(t, R, p, s)
    BY <1>1, <1>2, VisitsKnow
<1>4. at[k] \in Spots(t) /\ p \in 1 .. n + 1 /\ p \in Nat
    BY <1>0, <1>2, VisitsMean DEF Walks, Spots
<1>5. p <= n
    BY <1>0, <1>2, <1>4
<1>6. p \in 1 .. n /\ s \in ScanStates /\ to = Scan(t, p, s) /\ StepsTo(t, p, s, to)
    BY <1>2, <1>5, VisitsMove
<1>7. to \in Spots(t) /\ to.pos \in {p + 1, p + 2} /\ to.pos \in Nat
    BY <1>4, <1>6 DEF StepsTo
<1>8. ASSUME t[i] # "n", at[k] = Goto(i, "code"), to = Goto(i + 1, "code")
      PROVE  i \in InCode(t)
    <2>1. p = i /\ s = "code"
        BY <1>8 DEF Goto
    <2>2. Scan(t, i, "code") = Goto(i + 1, "code")
        BY <1>6, <1>8, <2>1
    <2> HIDE DEF at, to
    <2> QED
        BY <1>2, <1>8, <2>2, PlainIsCode DEF at
<1>9. ASSUME i \in InCode(t)
      PROVE  t[i] # "n" /\ at[k] = Goto(i, "code") /\ to = Goto(i + 1, "code")
    <2>1. t[i] # "n" /\ \A r \in R : i \notin r .. EndOf(t, r)
        BY <1>9 DEF InCode
    <2> HIDE DEF p, s, to, R
    <2>2. ASSUME s # "code" PROVE FALSE
        <3>1. PICK r \in R : Inside(t, r, p, s)
            BY <1>3, <2>2 DEF Knows
        <3>2. r \in Nat /\ r < p
            BY <1>0, <1>4, <3>1 DEF Inside
        <3>3. CASE to.state = "code"
            <4>1. \/ EndOf(t, r) = to.pos - 1
                  \/ EndOf(t, r) = p - 1 /\ to.pos = p + 1 /\ t[p] = "n"
                BY <1>5, <1>6, <3>1, <3>3, Closes
            <4>2. CASE EndOf(t, r) = to.pos - 1
                <5>1. i \in r .. EndOf(t, r)
                    BY <1>0, <1>2, <1>4, <1>7, <3>2, <4>2
                <5> QED
                    BY <2>1, <5>1
            <4>3. CASE to.pos = p + 1 /\ t[p] = "n"
                <5>1. i = p
                    BY <1>0, <1>2, <1>4, <4>3
                <5> QED
                    BY <2>1, <4>3, <5>1
            <4> QED
                BY <4>1, <4>2, <4>3
        <3>4. CASE to.state # "code"
            <4>1. Inside(t, r, to.pos, s)
                BY <1>5, <1>6, <3>1, <3>4, StaysOpen
            <4>2. to.pos - 1 <= EndOf(t, r) /\ EndOf(t, r) \in r .. n
                BY <4>1, OpenGoesOn
            <4>3. i \in r .. EndOf(t, r)
                BY <1>0, <1>2, <1>4, <1>7, <3>2, <4>2
            <4> QED
                BY <2>1, <4>3
        <3> QED
            BY <3>3, <3>4
    <2>3. StepsTo(t, p, "code", to)
        BY <1>6, <2>2
    <2>4. to.state = "code"
        <3> SUFFICES ASSUME to.state # "code" PROVE FALSE
            OBVIOUS
        <3>1. p \in Openers(t) /\ Inside(t, p, to.pos, to.state)
            BY <1>6, <2>3, Opens
        <3>2. p \in R
            BY <1>1, <1>3, <2>2, <3>1 DEF Knows, IsRegions
        <3>3. to.pos - 1 <= EndOf(t, p) /\ EndOf(t, p) \in p .. n
            BY <3>1, OpenGoesOn
        <3>4. i \in p .. EndOf(t, p)
            BY <1>0, <1>2, <1>4, <1>7, <3>3
        <3> QED
            BY <2>1, <3>2, <3>4
    <2>5. to.pos = p + 1
        BY <1>6, <2>3, <2>4, Opens
    <2>6. p = i
        BY <1>0, <1>2, <1>4, <2>5
    <2>7. to = Goto(i + 1, "code")
        BY <1>7, <2>4, <2>5, <2>6 DEF Spots, Goto
    <2>8. at[k] = Goto(i, "code")
        <3>1. at[k].pos = i /\ at[k].state = "code"
            BY <2>2, <2>6 DEF p, s
        <3> QED
            BY <1>4, <3>1 DEF Spots, Goto
    <2> QED
        BY <2>1, <2>7, <2>8
<1> QED
    BY <1>8, <1>9

\* What the scanner takes for code is code: no comment or literal holds it.
LEMMA MaskIsCode ==
    ASSUME NEW t \in Text
    PROVE  CodeMask(t) = InCode(t)
<1> DEFINE n == Len(t)
           at == Visits(t)
           G == [x \in Spots(t) |-> Scan(t, x.pos, x.state)]
<1>0. n \in Nat
    BY DEF Text
<1>1. CodeMask(t) = {i \in 1 .. n : /\ t[i] # "n" /\ Scan(t, i, "code") = Goto(i + 1, "code")
                                    /\ \E k \in 0 .. n : at[k] = Goto(i, "code")}
    BY DEF CodeMask
<1>2. Walks(at, t, G)
    BY VisitsMean
<1>3. Forward(t, G)
    <2>1. ASSUME NEW x \in Spots(t), x.pos <= n
          PROVE  G[x] \in Spots(t) /\ G[x].pos \in {x.pos + 1, x.pos + 2}
        <3>1. x.pos \in 1 .. n /\ x.state \in ScanStates
            BY <1>0, <2>1 DEF Spots
        <3>2. StepsTo(t, x.pos, x.state, G[x])
            BY <3>1, ScanMeans
        <3> QED
            BY <3>2 DEF StepsTo
    <2> QED
        BY <2>1 DEF Forward
<1> HIDE DEF G
<1>4. ASSUME NEW i \in CodeMask(t) PROVE i \in InCode(t)
    BY <1>1, PlainIsCode
<1>5. ASSUME NEW i \in InCode(t) PROVE i \in CodeMask(t)
    <2>1. i \in 1 .. n
        BY DEF InCode
    <2>2. PICK k : Crosses(at, t, i, k)
        BY <1>2, <1>3, <2>1, WalkCovers
    <2>3. t[i] # "n" /\ at[k] = Goto(i, "code") /\ at[k + 1] = Goto(i + 1, "code")
        BY <2>1, <2>2, CodeCrossed
    <2>4. k \in 0 .. n - 1 /\ k \in 0 .. n
        BY <1>0, <2>2 DEF Crosses
    <2>5. at[k].pos = i /\ at[k].state = "code"
        BY <2>3 DEF Goto
    <2>6. at[k].pos <= n
        BY <1>0, <2>1, <2>5
    <2>7. at[k + 1] = Scan(t, at[k].pos, at[k].state)
        BY <2>4, <2>6, VisitsMove
    <2>8. Scan(t, i, "code") = Goto(i + 1, "code")
        BY <2>3, <2>5, <2>7
    <2> QED
        BY <1>1, <2>1, <2>3, <2>4, <2>8
<1> QED
    BY <1>4, <1>5

(* ----------------------------- names in code ------------------------------ *)

\* Where the name stands, and the next such place.
Occurs(t, name) == {i \in 1 .. Len(t) : Has(t, i, name)}
NextPlace(t, O, i) == Least({j \in O : j >= i} \cup {Len(t) + 1})

\* The next place is at i or after it, and no other one lies between.
LEMMA NextMeans ==
    ASSUME NEW t \in Text, NEW O \in SUBSET (1 .. Len(t)), NEW i \in 1 .. Len(t) + 1
    PROVE  /\ NextPlace(t, O, i) \in O \cup {Len(t) + 1} /\ NextPlace(t, O, i) >= i
           /\ \A j \in O : j >= i => NextPlace(t, O, i) <= j
<1> DEFINE S == {j \in O : j >= i} \cup {Len(t) + 1}
<1>0. Len(t) \in Nat
    BY DEF Text
<1>1. S \in SUBSET Nat /\ S # {}
    <2>1. \A j \in O : j \in Nat
        BY <1>0
    <2>2. Len(t) + 1 \in S /\ Len(t) + 1 \in Nat
        BY <1>0
    <2>3. \A j \in S : j \in O \/ j = Len(t) + 1
        OBVIOUS
    <2> HIDE DEF S
    <2> QED
        BY <2>1, <2>2, <2>3
<1>2. Least(S) \in S /\ \A j \in S : Least(S) <= j
    <2> HIDE DEF S
    <2> QED
        BY <1>1, FirstMeans
<1>3. \A j \in O : j >= i => j \in S
    OBVIOUS
<1>4. \A j \in S : j \in O \cup {Len(t) + 1} /\ j >= i
    BY <1>0
<1>5. NextPlace(t, O, i) = Least(S)
    BY DEF NextPlace
<1> HIDE DEF S
<1> QED
    BY <1>2, <1>3, <1>4, <1>5

\* A search for places of w characters: it goes on behind the last one.
Searches(f, t, O, w) ==
    /\ f \in [0 .. Len(t) -> O \cup {Len(t) + 1}] /\ f[0] = NextPlace(t, O, 1)
    /\ \A k \in 1 .. Len(t) : f[k] = IF f[k - 1] > Len(t) THEN f[k - 1] ELSE NextPlace(t, O, f[k - 1] + w)
LieWithin(t, O, w) == O \in SUBSET (1 .. Len(t)) /\ w \in Nat \ {0} /\ \A i \in O : i + w - 1 <= Len(t)
\* No other place reaches as far as i.
Unreached(O, w, i) == \A x \in O : x < i => x + w <= i

\* There is such a search.
LEMMA SearchExists ==
    ASSUME NEW t \in Text, NEW O, NEW w, LieWithin(t, O, w)
    PROVE  \E f : Searches(f, t, O, w)
<1> DEFINE n == Len(t)
           S == O \cup {n + 1}
           F == [m \in 1 .. n |-> [x \in S |-> IF x > n THEN x ELSE NextPlace(t, O, x + w)]]
<1>0. n \in Nat /\ O \in SUBSET (1 .. n) /\ w \in Nat /\ w >= 1 /\ \A i \in O : i + w - 1 <= n
    BY DEF Text, LieWithin
<1>1. NextPlace(t, O, 1) \in S
    BY <1>0, NextMeans
<1>2. ASSUME NEW x \in S PROVE (IF x > n THEN x ELSE NextPlace(t, O, x + w)) \in S
    <2>1. CASE x > n
        BY <2>1
    <2>2. CASE ~(x > n)
        <3>1. x \in O /\ x \in Nat
            BY <1>0, <2>2
        <3>2. x + w - 1 <= n
            BY <1>0, <3>1
        <3>3. x + w \in 1 .. n + 1
            BY <1>0, <3>1, <3>2
        <3>4. NextPlace(t, O, x + w) \in S
            BY <1>0, <3>3, NextMeans
        <3> QED
            BY <2>2, <3>4
    <2> QED
        BY <2>1, <2>2
<1>3. F \in [1 .. n -> [S -> S]]
    <2> HIDE DEF S
    <2> QED
        BY <1>2
<1>4. \A m \in 1 .. n : \A x \in S : F[m][x] = IF x > n THEN x ELSE NextPlace(t, O, x + w)
    OBVIOUS
<1> HIDE DEF F, S
<1>5. PICK f : Solves(f, n, S, NextPlace(t, O, 1), F)
    BY <1>0, <1>1, <1>3, Recursion
<1>6. f \in [0 .. n -> S] /\ f[0] = NextPlace(t, O, 1) /\ \A m \in 1 .. n : f[m] = F[m][f[m - 1]]
    BY <1>5 DEF Solves
<1>7. ASSUME NEW m \in 1 .. n PROVE f[m] = IF f[m - 1] > n THEN f[m - 1] ELSE NextPlace(t, O, f[m - 1] + w)
    <2>1. f[m - 1] \in S
        BY <1>0, <1>6
    <2> QED
        BY <1>4, <1>6, <2>1
<1> QED
    BY <1>6, <1>7 DEF Searches, S

\* It comes to every place that no earlier one overlaps.
LEMMA SearchFinds ==
    ASSUME NEW t \in Text, NEW O, NEW w, LieWithin(t, O, w), NEW f, Searches(f, t, O, w),
           NEW i \in O, Unreached(O, w, i)
    PROVE  \E k \in 0 .. Len(t) : f[k] = i
<1> DEFINE n == Len(t)
           Reached == \E k \in 0 .. n : f[k] = i
           T == {k \in Nat : /\ f[k] >= k + 1 \/ f[k] > n
                             /\ i < f[k] => Reached}
<1>0. n \in Nat /\ O \in SUBSET (1 .. n) /\ w \in Nat /\ w >= 1 /\ i \in Nat /\ i <= n /\ i >= 1
    BY DEF Text, LieWithin
<1>1. \A x \in O : x + w - 1 <= n /\ (x < i => x + w <= i)
    BY DEF LieWithin, Unreached
<1>01. \A x \in O \cup {n + 1} : x \in Nat
    BY <1>0
<1>2. /\ f \in [0 .. n -> O \cup {n + 1}] /\ f[0] = NextPlace(t, O, 1)
      /\ \A k \in 1 .. n : f[k] = IF f[k - 1] > n THEN f[k - 1] ELSE NextPlace(t, O, f[k - 1] + w)
    BY DEF Searches
<1>3. 0 \in T
    <2>1. f[0] <= i /\ f[0] >= 1
        BY <1>0, <1>2, NextMeans
    <2>2. f[0] \in Nat
        <3>1. 0 \in 0 .. n /\ f \in [0 .. n -> O \cup {n + 1}]
            BY <1>0, <1>2
        <3>2. f[0] \in O \cup {n + 1}
            BY <3>1
        <3> QED
            BY <1>01, <3>2
    <2> QED
        BY <1>0, <2>1, <2>2
<1>4. ASSUME NEW k \in 0 .. n - 1, k \in T PROVE k + 1 \in T
    <2>1. k + 1 \in 1 .. n /\ (k + 1) - 1 = k /\ k + 1 \in Nat /\ k \in 0 .. n /\ k \in Nat
        BY <1>0
    <2>2. f[k + 1] = IF f[k] > n THEN f[k] ELSE NextPlace(t, O, f[k] + w)
        BY <1>2, <2>1
    <2>3. f[k] \in O \cup {n + 1} /\ f[k] \in Nat
        BY <1>01, <1>2, <2>1
    <2>4. (f[k] >= k + 1 \/ f[k] > n) /\ (i < f[k] => Reached)
        BY <1>4
    <2>5. CASE f[k] > n
        <3>1. f[k + 1] = f[k] /\ Reached
            BY <1>0, <2>2, <2>3, <2>4, <2>5
        <3> QED
            BY <2>1, <2>5, <3>1
    <2>6. CASE ~(f[k] > n)
        <3>1. f[k] \in O
            BY <1>0, <2>3, <2>6
        <3>2. f[k] + w \in 1 .. n + 1
            BY <1>0, <1>1, <2>3, <3>1
        <3>3. f[k + 1] >= f[k] + w /\ (i >= f[k] + w => f[k + 1] <= i)
            BY <1>0, <2>2, <2>6, <3>2, NextMeans
        <3>4. f[k + 1] \in Nat
            <4>1. k + 1 \in 0 .. n
                BY <2>1
            <4> QED
                BY <1>01, <1>2, <4>1
        <3>5. f[k + 1] >= (k + 1) + 1
            BY <1>0, <2>1, <2>3, <2>4, <2>6, <3>3, <3>4
        <3>6. ASSUME i < f[k + 1] PROVE Reached
            <4>1. ~(i >= f[k] + w)
                BY <1>0, <3>3, <3>4, <3>6
            <4>2. ~(f[k] < i)
                BY <1>0, <1>1, <2>3, <3>1, <4>1
            <4>3. CASE i < f[k]
                BY <2>4, <4>3
            <4>4. CASE i = f[k]
                BY <2>1, <4>4
            <4> QED
                BY <1>0, <2>3, <4>2, <4>3, <4>4
        <3> HIDE DEF Reached
        <3> QED
            BY <2>1, <3>5, <3>6
    <2> QED
        BY <2>5, <2>6
<1>5. T \in SUBSET Nat
    OBVIOUS
<1>6. n \in T
    <2> HIDE DEF T
    <2>1. \A k \in 0 .. n : k \in T
        BY <1>0, <1>3, <1>4, <1>5, UpTo
    <2> QED
        BY <1>0, <2>1
<1>7. f[n] \in Nat /\ (f[n] >= n + 1 \/ f[n] > n) /\ (i < f[n] => Reached)
    <2>1. f[n] \in Nat
        <3>1. n \in 0 .. n /\ f \in [0 .. n -> O \cup {n + 1}]
            BY <1>0, <1>2
        <3>2. f[n] \in O \cup {n + 1}
            BY <3>1
        <3> QED
            BY <1>01, <3>2
    <2> QED
        BY <1>6, <2>1
<1> QED
    BY <1>0, <1>7

\* Where a name stands there are only characters of identifiers, one at least.
LEMMA NameStands ==
    ASSUME NEW t \in Text, NEW name \in Names, NEW i \in Occurs(t, name)
    PROVE  /\ Len(name) \in Nat \ {0} /\ i + Len(name) - 1 <= Len(t)
           /\ \A m \in 1 .. Len(name) : t[i + m - 1] \in {"a", "b"}
<1> DEFINE w == Len(name)
           u == SubSeq(t, i, i + w - 1)
<1>0. Len(t) \in Nat /\ t \in Seq(STRING) /\ i \in 1 .. Len(t)
    BY DEF Text, Occurs
<1>1. name \in Seq({"a", "b"}) /\ name # << >>
    BY QueriesAssumption
<1>2. w \in Nat \ {0} /\ \A m \in 1 .. w : name[m] \in {"a", "b"}
    <2>1. w \in Nat /\ w # 0 /\ DOMAIN name = 1 .. w
        BY <1>1, EmptySeq, LenProperties
    <2>2. \A m \in 1 .. w : name[m] \in {"a", "b"}
        BY <1>1, <2>1, ElementOfSeq
    <2> QED
        BY <2>1, <2>2
<1>3. i + w - 1 <= Len(t) /\ u = name
    BY DEF Occurs, Has
<1>4. i \in Int /\ i + w - 1 \in Int /\ \A m \in i .. i + w - 1 : t[m] \in STRING
    <2>1. \A m \in i .. i + w - 1 : m \in 1 .. Len(t)
        BY <1>0, <1>2, <1>3
    <2> QED
        BY <1>0, <1>2, <2>1, ElementOfSeq
<1> HIDE DEF w
<1>5. \A m \in 1 .. (i + w - 1) - i + 1 : u[m] = t[i + m - 1]
    <2>1. i <= (i + w - 1) + 1
        BY <1>0, <1>2
    <2> QED
        BY <1>4, <2>1, SubSeqProperties
<1>6. (i + w - 1) - i + 1 = w
    BY <1>0, <1>2
<1>7. \A m \in 1 .. w : t[i + m - 1] \in {"a", "b"}
    BY <1>2, <1>3, <1>5, <1>6
<1> QED
    BY <1>2, <1>3, <1>7 DEF w

\* The search of the program comes to every place where the name is a whole word.
LEMMA NameSearch ==
    ASSUME NEW t \in Text, NEW name \in Names, NEW i \in Occurs(t, name),
           WholeWord(t, i, i + Len(name) - 1)
    PROVE  LET O == Occurs(t, name)
               next(h) == Least({j \in O : j >= h} \cup {Len(t) + 1})
               search[k \in 0 .. Len(t)] ==
                   IF k = 0 THEN next(1)
                   ELSE IF search[k - 1] > Len(t) THEN search[k - 1] ELSE next(search[k - 1] + Len(name))
           IN \E k \in 0 .. Len(t) : search[k] = i
<1> DEFINE n == Len(t)
           w == Len(name)
           O == Occurs(t, name)
           Body(f) == [k \in 0 .. n |->
                          IF k = 0 THEN NextPlace(t, O, 1)
                          ELSE IF f[k - 1] > n THEN f[k - 1] ELSE NextPlace(t, O, f[k - 1] + w)]
           A == CHOOSE f : f = Body(f)
<1>0. n \in Nat
    BY DEF Text
<1>1. LieWithin(t, O, w) /\ Unreached(O, w, i)
    <2>1. O \in SUBSET (1 .. n) /\ i \in O
        BY DEF Occurs
    <2>2. \A h \in O : /\ w \in Nat \ {0} /\ h + w - 1 <= n
                        /\ \A m \in 1 .. w : t[h + m - 1] \in {"a", "b"}
        BY NameStands
    <2>3. i = 1 \/ t[i - 1] \notin {"a", "b"}
        BY DEF WholeWord, IsIdentifier
    <2> HIDE DEF O, w
    <2>4. ASSUME NEW h \in O, h < i PROVE h + w <= i
        <3> SUFFICES ASSUME ~(h + w <= i) PROVE FALSE
            OBVIOUS
        <3>1. h \in 1 .. n /\ i \in 1 .. n /\ w \in Nat /\ w >= 1
            BY <2>1, <2>2
        <3>2. i - h \in 1 .. w /\ h + (i - h) - 1 = i - 1 /\ i # 1
            BY <1>0, <2>4, <3>1
        <3>3. t[i - 1] \in {"a", "b"}
            BY <2>2, <3>2
        <3> QED
            BY <2>3, <3>2, <3>3
    <2> QED
        BY <2>1, <2>2, <2>4 DEF LieWithin, Unreached
<1> HIDE DEF O, w
<1>2. PICK f : Searches(f, t, O, w)
    BY <1>1, SearchExists
<1>3. f = Body(f)
    <2>1. /\ f \in [0 .. n -> O \cup {n + 1}] /\ f[0] = NextPlace(t, O, 1)
          /\ \A k \in 1 .. n : f[k] = IF f[k - 1] > n THEN f[k - 1] ELSE NextPlace(t, O, f[k - 1] + w)
        BY <1>2 DEF Searches
    <2>2. \A k \in 0 .. n : f[k] = Body(f)[k]
        <3>1. \A k \in 0 .. n : k = 0 \/ k \in 1 .. n
            BY <1>0
        <3> QED
            BY <2>1, <3>1
    <2>3. f = [k \in 0 .. n |-> f[k]]
        BY <2>1
    <2> QED
        BY <2>2, <2>3
<1>4. A = Body(A)
    BY <1>3
<1> HIDE DEF A
<1>5. /\ DOMAIN A = 0 .. n /\ A[0] = NextPlace(t, O, 1)
      /\ \A k \in 1 .. n : A[k] = IF A[k - 1] > n THEN A[k - 1] ELSE NextPlace(t, O, A[k - 1] + w)
    <2>1. \A k \in 1 .. n : k \in 0 .. n /\ k # 0
        BY <1>0
    <2> QED
        BY <1>0, <1>4, <2>1
<1>6. O \in SUBSET (1 .. n) /\ w \in Nat /\ w >= 1 /\ \A h \in O : h + w - 1 <= n
    BY <1>1 DEF LieWithin
<1>7. \A k \in 0 .. n : A[k] \in O \cup {n + 1}
    <2> DEFINE T == {k \in Nat : A[k] \in O \cup {n + 1}}
    <2>1. 0 \in T
        BY <1>0, <1>5, <1>6, NextMeans
    <2>2. ASSUME NEW k \in 0 .. n - 1, k \in T PROVE k + 1 \in T
        <3>1. k + 1 \in 1 .. n /\ (k + 1) - 1 = k /\ k + 1 \in Nat
            BY <1>0
        <3>2. A[k + 1] = IF A[k] > n THEN A[k] ELSE NextPlace(t, O, A[k] + w)
            BY <1>5, <3>1
        <3>3. A[k] \in O \cup {n + 1}
            BY <2>2
        <3>4. CASE A[k] > n
            BY <3>1, <3>2, <3>3, <3>4
        <3>5. CASE ~(A[k] > n)
            <4>1. A[k] \in O /\ A[k] \in Nat
                <5>1. n + 1 > n /\ \A x \in O : x \in Nat
                    BY <1>0, <1>6
                <5> QED
                    BY <3>3, <3>5, <5>1
            <4>2. A[k] + w - 1 <= n
                BY <1>6, <4>1
            <4>3. A[k] + w \in 1 .. n + 1
                BY <1>0, <1>6, <4>1, <4>2
            <4>4. NextPlace(t, O, A[k] + w) \in O \cup {n + 1}
                BY <1>6, <4>3, NextMeans
            <4> QED
                BY <3>1, <3>2, <3>5, <4>4
        <3> QED
            BY <3>4, <3>5
    <2>3. T \in SUBSET Nat
        OBVIOUS
    <2> HIDE DEF T
    <2>4. \A k \in 0 .. n : k \in T
        BY <1>0, <2>1, <2>2, <2>3, UpTo
    <2> QED
        BY <2>4 DEF T
<1>8. A \in [0 .. n -> O \cup {n + 1}]
    <2>1. A = [k \in 0 .. n |-> A[k]]
        BY <1>4
    <2> QED
        BY <1>7, <2>1
<1>9. Searches(A, t, O, w)
    BY <1>5, <1>8 DEF Searches
<1>10. \E k \in 0 .. n : A[k] = i
    BY <1>1, <1>9, SearchFinds DEF O
<1> QED
    BY <1>10 DEF NextPlace, A, O, w

\* The places the program finds are the whole words in code.
LEMMA MatchesAreWords ==
    ASSUME NEW t \in Text, NEW name \in Names
    PROVE  NameMatches(t, name) = Words(t, name)
<1> DEFINE w == Len(name)
<1>0. Len(t) \in Nat
    BY DEF Text
<1>1. CodeMask(t) = InCode(t)
    BY MaskIsCode
<1>2. ASSUME NEW i PROVE i \in NameMatches(t, name) <=> /\ i \in Occurs(t, name)
                                                        /\ i .. i + w - 1 \subseteq InCode(t)
                                                        /\ WholeWord(t, i, i + w - 1)
    <2>1. i \in NameMatches(t, name) => /\ i \in Occurs(t, name)
                                        /\ i .. i + w - 1 \subseteq InCode(t)
                                        /\ WholeWord(t, i, i + w - 1)
        BY <1>1 DEF NameMatches, Occurs
    <2>2. ASSUME i \in Occurs(t, name), i .. i + w - 1 \subseteq InCode(t), WholeWord(t, i, i + w - 1)
          PROVE  i \in NameMatches(t, name)
        BY <1>1, <2>2, NameSearch DEF NameMatches, Occurs
    <2> QED
        BY <2>1, <2>2
<1>3. ASSUME NEW i \in Occurs(t, name)
      PROVE  /\ i \in i .. i + w - 1
             /\ WholeWord(t, i, i + w - 1) <=> /\ i = 1 \/ ~IsIdentifier(t[i - 1])
                                               /\ i + w > Len(t) \/ ~IsIdentifier(t[i + w])
    <2>1. i \in Nat /\ w \in Nat /\ w >= 1 /\ i + w - 1 <= Len(t)
        BY <1>0, NameStands DEF Occurs
    <2>2. i \in i .. i + w - 1 /\ (i + w - 1) + 1 = i + w /\ (i + w - 1 = Len(t) <=> i + w > Len(t))
        BY <1>0, <2>1
    <2> QED
        BY <2>2 DEF WholeWord
<1>4. ASSUME NEW i PROVE i \in Words(t, name) <=> /\ i \in Occurs(t, name) /\ i \in InCode(t)
                                                  /\ i .. i + w - 1 \subseteq InCode(t)
                                                  /\ i = 1 \/ ~IsIdentifier(t[i - 1])
                                                  /\ i + w > Len(t) \/ ~IsIdentifier(t[i + w])
    BY DEF Words, Occurs, InCode
<1> HIDE DEF w
<1> QED
    BY <1>2, <1>3, <1>4

(* ---------------------------- the Java scanner ---------------------------- *)

\* Over legal Java the two scanners do the same.
LEMMA JavaScansAlike ==
    ASSUME NEW t \in Text, JavaLike(t), NEW p \in 1 .. Len(t), NEW s \in ScanStates,
           Knows(t, Regions(t), p, s)
    PROVE  ScanJava(t, p, s) = Scan(t, p, s)
<1>0. Len(t) \in Nat /\ p \in Nat /\ p <= Len(t) /\ DOMAIN t = 1 .. Len(t)
    BY DEF Text
<1>1. \A i \in 1 .. Len(t) : t[i] # "r"
    BY <1>0 DEF JavaLike, ToSet
<1>2. ScanStates = {"code", "line", "block", "q", "s", "r"}
    BY DEF ScanStates
<1>3. CASE s = "code"
    <2>1. t[p] # "r"
        BY <1>1
    <2>2. ScanJava(t, p, s) = ScanCode(t, p)
        BY <1>3, <2>1 DEF ScanJava
    <2>3. Scan(t, p, s) = ScanCode(t, p)
        BY <1>3 DEF Scan
    <2> QED
        BY <2>2, <2>3
<1>4. CASE s \in {"line", "block"}
    BY <1>4 DEF ScanJava
<1>5. CASE s \in {"q", "s", "r"}
    <2>1. PICK r \in Regions(t) : Inside(t, r, p, s)
        BY <1>5 DEF Knows
    <2>2. r \in 1 .. Len(t) /\ r \in Nat /\ p \in r + 1 .. Len(t) + 1
        BY <1>0, <2>1 DEF Inside
    <2>3. s # "r"
        BY <1>1, <2>1, <2>2 DEF Inside
    <2>4. /\ s \in {"q", "s"} /\ t[r] = s
          /\ \A j \in r + 1 .. p - 1 : t[j] # "n" /\ (t[j] = s => Escaped(t, r, j))
        BY <1>5, <2>1, <2>3 DEF Inside
    <2> DEFINE e == LineEndAt(t, r)
    <2>5. PICK c \in Closers(t, r) : TRUE
        BY <2>1, <2>4 DEF JavaLike
    <2>6. c \in r + 1 .. e /\ t[c] = s /\ ~Escaped(t, r, c)
        BY <2>2, <2>4, <2>5, ClosersMean
    <2>7. e \in r .. Len(t) /\ \A j \in r + 1 .. e : t[j] # "n"
        BY <2>2, LineEndAtMeans
    <2> HIDE DEF e
    <2>8. p <= c
        <3>1. c \notin r + 1 .. p - 1
            BY <2>4, <2>6
        <3> QED
            BY <1>0, <2>2, <2>6, <2>7, <3>1
    <2>9. t[p] # "n"
        <3>1. p \in r + 1 .. e
            BY <1>0, <2>2, <2>6, <2>7, <2>8
        <3> QED
            BY <2>7, <3>1
    <2>10. (t[p] = "e" /\ p < Len(t)) => t[p + 1] # "n"
        <3> SUFFICES ASSUME t[p] = "e" PROVE t[p + 1] # "n"
            OBVIOUS
        <3>1. p # c
            BY <2>4, <2>6
        <3>2. p + 1 \in r + 1 .. e
            BY <1>0, <2>2, <2>6, <2>7, <2>8, <3>1
        <3> QED
            BY <2>7, <3>2
    <2>11. ScanJava(t, p, s) = IF t[p] = "e" /\ p < Len(t) THEN Goto(p + 2, s)
                               ELSE Goto(p + 1, IF t[p] = s THEN "code" ELSE s)
        BY <2>4 DEF ScanJava
    <2>12. Scan(t, p, s) = IF t[p] = "e" /\ p < Len(t) /\ t[p + 1] # "n" THEN Goto(p + 2, s)
                           ELSE Goto(p + 1, IF t[p] \in {s, "n"} THEN "code" ELSE s)
        BY <2>4 DEF Scan, ScanQuoted
    <2> QED
        BY <2>9, <2>10, <2>11, <2>12
<1> QED
    BY <1>2, <1>3, <1>4, <1>5

\* So they come through the same places.
LEMMA JavaVisitsAlike ==
    ASSUME NEW t \in Text, JavaLike(t)
    PROVE  JavaVisits(t) = Visits(t)
<1> DEFINE n == Len(t)
           at == Visits(t)
           G == [x \in Spots(t) |-> Scan(t, x.pos, x.state)]
           Body(f) == [k \in 0 .. n |->
                          IF k = 0 THEN Goto(1, "code")
                          ELSE IF f[k - 1].pos > n THEN f[k - 1]
                          ELSE ScanJava(t, f[k - 1].pos, f[k - 1].state)]
           A == JavaVisits(t)
<1>0. n \in Nat
    BY DEF Text
<1>1. A = CHOOSE f : f = Body(f)
    BY DEF JavaVisits, Walk
<1>2. Walks(at, t, G)
    BY VisitsMean
<1> HIDE DEF at, G, A
<1>3. /\ at \in [0 .. n -> Spots(t)] /\ at[0].pos = 1 /\ at[0].state = "code"
      /\ \A m \in 1 .. n : at[m] = IF at[m - 1].pos > n THEN at[m - 1] ELSE G[at[m - 1]]
    BY <1>2 DEF Walks
<1>4. at[0] = Goto(1, "code")
    <2>1. at[0] \in Spots(t)
        BY <1>0, <1>3
    <2> QED
        BY <1>3, <2>1 DEF Spots, Goto
<1>5. ASSUME NEW k \in 1 .. n
      PROVE  at[k] = IF at[k - 1].pos > n THEN at[k - 1] ELSE ScanJava(t, at[k - 1].pos, at[k - 1].state)
    <2>1. k - 1 \in 0 .. n - 1 /\ (k - 1) + 1 = k /\ k - 1 \in 0 .. n
        BY <1>0
    <2>2. CASE at[k - 1].pos > n
        BY <1>3, <2>2
    <2>3. CASE ~(at[k - 1].pos > n)
        <3>1. at[k - 1] \in Spots(t) /\ at[k - 1].pos \in Nat
            BY <1>0, <1>3, <2>1 DEF Spots
        <3>2. at[k - 1].pos <= n
            BY <1>0, <2>3, <3>1
        <3>3. /\ at[k - 1].pos \in 1 .. n /\ at[k - 1].state \in ScanStates
              /\ at[k] = Scan(t, at[k - 1].pos, at[k - 1].state)
            BY <2>1, <3>2, VisitsMove DEF at
        <3>4. Knows(t, Regions(t), at[k - 1].pos, at[k - 1].state)
            BY <2>1, RegionsExist, VisitsKnow DEF at
        <3> QED
            BY <2>3, <3>3, <3>4, JavaScansAlike
    <2> QED
        BY <2>2, <2>3
<1>6. at = Body(at)
    <2>1. \A k \in 0 .. n : at[k] = Body(at)[k]
        <3>1. \A k \in 0 .. n : k = 0 \/ k \in 1 .. n
            BY <1>0
        <3> QED
            BY <1>4, <1>5, <3>1
    <2>2. at = [k \in 0 .. n |-> at[k]]
        BY <1>3
    <2> QED
        BY <2>1, <2>2
<1>7. A = Body(A)
    BY <1>1, <1>6
<1>8. /\ DOMAIN A = 0 .. n /\ A[0] = Goto(1, "code")
      /\ \A k \in 1 .. n : A[k] = IF A[k - 1].pos > n THEN A[k - 1]
                                  ELSE ScanJava(t, A[k - 1].pos, A[k - 1].state)
    <2>1. \A k \in 1 .. n : k \in 0 .. n /\ k # 0
        BY <1>0
    <2> QED
        BY <1>0, <1>7, <2>1
<1>9. \A k \in 0 .. n : A[k] = at[k]
    <2> DEFINE T == {k \in Nat : A[k] = at[k]}
    <2>1. 0 \in T
        BY <1>4, <1>8
    <2>2. ASSUME NEW k \in 0 .. n - 1, k \in T PROVE k + 1 \in T
        <3>1. k + 1 \in 1 .. n /\ (k + 1) - 1 = k /\ k + 1 \in Nat
            BY <1>0
        <3>2. A[k] = at[k]
            BY <2>2
        <3>3. A[k + 1] = IF A[k].pos > n THEN A[k] ELSE ScanJava(t, A[k].pos, A[k].state)
            BY <1>8, <3>1
        <3>4. at[k + 1] = IF at[k].pos > n THEN at[k] ELSE ScanJava(t, at[k].pos, at[k].state)
            BY <1>5, <3>1
        <3> QED
            BY <3>1, <3>2, <3>3, <3>4
    <2>3. T \in SUBSET Nat
        OBVIOUS
    <2> HIDE DEF T
    <2>4. \A k \in 0 .. n : k \in T
        BY <1>0, <2>1, <2>2, <2>3, UpTo
    <2> QED
        BY <2>4 DEF T
<1>10. A = at
    <2>1. A = [k \in 0 .. n |-> A[k]] /\ at = [k \in 0 .. n |-> at[k]]
        BY <1>3, <1>7
    <2> QED
        BY <1>9, <2>1
<1> QED
    BY <1>10 DEF A, at

\* What is left of the character at j, and a blanked copy of the first k characters.
Blank(t, j) == IF j \in InCode(t) \/ t[j] = "n" THEN t[j] ELSE "w"
Marks == STRING \cup {"w"}
Blanked(t, v, k) == v \in Seq(Marks) /\ Len(v) = k /\ \A j \in 1 .. k : v[j] = Blank(t, j)
\* What the Java scanner writes for a step.
PartOf(t, from, to) ==
    IF t[from.pos] = "n" \/ (from.state = "code" /\ to = Goto(from.pos + 1, "code"))
    THEN <<t[from.pos]>> ELSE [j \in 1 .. to.pos - from.pos |-> "w"]

\* No newline is passed along with another character.
LEMMA NewlinesAlone ==
    ASSUME NEW t \in Text, NEW p \in 1 .. Len(t), NEW s \in ScanStates, NEW to, StepsTo(t, p, s, to)
    PROVE  /\ t[p] = "n" => to.pos = p + 1
           /\ to.pos = p + 2 => t[p + 1] # "n"
<1>0. p \in Nat /\ to.pos \in {p + 1, p + 2} /\ p + 1 # p + 2
    BY DEF StepsTo
<1>1. ScanStates = {"code", "line", "block", "q", "s", "r"}
    BY DEF ScanStates
<1>2. /\ t[p] = "n" => ~Pair(t, p, "/", "/") /\ ~Pair(t, p, "/", "*") /\ ~Pair(t, p, "*", "/")
      /\ Pair(t, p, "/", "/") => t[p + 1] # "n"
      /\ Pair(t, p, "/", "*") => t[p + 1] # "n"
      /\ Pair(t, p, "*", "/") => t[p + 1] # "n"
    BY DEF Pair
<1>3. CASE s = "code"
    BY <1>0, <1>2, <1>3 DEF StepsTo
<1>4. CASE s = "line"
    BY <1>0, <1>4 DEF StepsTo
<1>5. CASE s = "block"
    BY <1>0, <1>2, <1>5 DEF StepsTo
<1>6. CASE s = "r"
    BY <1>0, <1>6 DEF StepsTo
<1>7. CASE s \in {"q", "s"}
    BY <1>0, <1>7 DEF StepsTo
<1> QED
    BY <1>1, <1>3, <1>4, <1>5, <1>6, <1>7

\* What is written for a step is what is left of its characters.
LEMMA PartMeans ==
    ASSUME NEW t \in Text, NEW k \in 0 .. Len(t) - 1, NEW p, p = Visits(t)[k].pos, p <= Len(t),
           NEW to, to = Visits(t)[k + 1], NEW u, u = PartOf(t, Visits(t)[k], to)
    PROVE  u \in Seq(Marks) /\ Len(u) = to.pos - p /\ \A j \in 1 .. Len(u) : u[j] = Blank(t, p + j - 1)
<1> DEFINE n == Len(t)
           from == Visits(t)[k]
           s == from.state
<1>0. n \in Nat /\ \A i \in 1 .. n : t[i] \in Marks
    BY DEF Text, Marks
<1>1. from \in Spots(t) /\ p \in 1 .. n /\ s \in ScanStates /\ StepsTo(t, p, s, to)
    BY VisitsMove
<1>2. p \in Nat /\ to \in Spots(t) /\ to.pos \in {p + 1, p + 2} /\ to.pos \in Nat /\ to.pos <= n + 1
    BY <1>0, <1>1 DEF StepsTo, Spots
<1>3. (t[p] = "n" => to.pos = p + 1) /\ (to.pos = p + 2 => t[p + 1] # "n")
    BY <1>1, NewlinesAlone
<1>4. ASSUME NEW i \in p .. to.pos - 1
      PROVE  /\ i \in 1 .. n
             /\ i \in InCode(t) <=> t[i] # "n" /\ from = Goto(i, "code") /\ to = Goto(i + 1, "code")
    <2>1. i \in 1 .. n
        BY <1>0, <1>1, <1>2
    <2>2. Crosses(Visits(t), t, i, k)
        BY <1>2 DEF Crosses
    <2> QED
        BY <2>1, <2>2, CodeCrossed
<1>5. \A i : Goto(i, "code").pos = i /\ Goto(i, "code").state = "code"
    BY DEF Goto
<1>6. CASE t[p] = "n" \/ (s = "code" /\ to = Goto(p + 1, "code"))
    <2>1. u = <<t[p]>>
        BY <1>6 DEF PartOf
    <2>2. to.pos = p + 1
        BY <1>3, <1>5, <1>6
    <2>3. t[p] = Blank(t, p)
        <3>1. CASE t[p] = "n"
            BY <3>1 DEF Blank
        <3>2. CASE t[p] # "n"
            <4>1. s = "code" /\ to = Goto(p + 1, "code") /\ from = Goto(p, "code")
                BY <1>1, <1>6, <3>2 DEF Spots, Goto
            <4>2. p \in InCode(t)
                BY <1>2, <1>4, <2>2, <3>2, <4>1
            <4> QED
                BY <4>2 DEF Blank
        <3> QED
            BY <3>1, <3>2
    <2>4. Len(u) = 1 /\ u[1] = t[p] /\ u \in Seq(Marks) /\ p + 1 - 1 = p
        BY <1>0, <1>1, <1>2, <2>1
    <2>5. \A j \in 1 .. Len(u) : j = 1
        BY <2>4
    <2> QED
        BY <1>2, <2>2, <2>3, <2>4, <2>5
<1>7. CASE ~(t[p] = "n" \/ (s = "code" /\ to = Goto(p + 1, "code")))
    <2> DEFINE d == to.pos - p
    <2>1. u = [j \in 1 .. d |-> "w"]
        BY <1>7 DEF PartOf
    <2>0. d = 1 \/ d = 2
        <3>1. to.pos = p + 1 \/ to.pos = p + 2
            BY <1>2
        <3>2. to.pos = p + 1 => d = 1
            BY <1>2
        <3>3. to.pos = p + 2 => d = 2
            BY <1>2
        <3> QED
            BY <3>1, <3>2, <3>3
    <2>2. d \in Nat /\ to.pos = p + d
        <3>1. to.pos = p + d
            BY <1>2
        <3> HIDE DEF d
        <3> QED
            BY <2>0, <3>1
    <2>3. u \in Seq(Marks) /\ Len(u) = d /\ \A j \in 1 .. d : u[j] = "w"
        BY <2>1, <2>2 DEF Marks
    <2>4. ASSUME NEW j \in 1 .. d PROVE Blank(t, p + j - 1) = "w"
        <3>1. p + j - 1 \in p .. to.pos - 1 /\ p + j - 1 \in {p, p + 1} /\ (p + j - 1 = p + 1 => to.pos = p + 2)
            <4> HIDE DEF d
            <4>1. j \in 1 .. d /\ j \in Nat
                BY <2>2
            <4>2. CASE d = 1
                <5>1. j = 1 /\ to.pos = p + 1
                    BY <2>2, <4>1, <4>2
                <5> QED
                    BY <1>2, <5>1
            <4>3. CASE d = 2
                <5>1. (j = 1 \/ j = 2) /\ to.pos = p + 2
                    BY <2>2, <4>1, <4>3
                <5> QED
                    BY <1>2, <5>1
            <4> QED
                BY <2>0, <4>2, <4>3
        <3>2. t[p + j - 1] # "n"
            BY <1>3, <1>7, <3>1
        <3>3. p + j - 1 \notin InCode(t)
            <4> SUFFICES ASSUME p + j - 1 \in InCode(t) PROVE FALSE
                OBVIOUS
            <4>1. from = Goto(p + j - 1, "code") /\ to = Goto((p + j - 1) + 1, "code")
                BY <1>4, <3>1
            <4>2. p + j - 1 = p /\ s = "code"
                BY <1>5, <4>1
            <4> QED
                BY <1>7, <4>1, <4>2
        <3> QED
            BY <3>2, <3>3 DEF Blank
    <2> QED
        BY <2>3, <2>4
<1> QED
    BY <1>6, <1>7

\* Of legal Java the scanner keeps the code and the newlines, and blanks the rest.
LEMMA StripMeans ==
    ASSUME NEW t \in Text, JavaLike(t)
    PROVE  Blanked(t, StripJava(t), Len(t))
<1> DEFINE n == Len(t)
           at == Visits(t)
           piece(k) == IF at[k - 1].pos > n THEN << >> ELSE PartOf(t, at[k - 1], at[k])
           S == Seq(Marks)
           Body(f) == [k \in 0 .. n |-> IF k = 0 THEN << >> ELSE f[k - 1] \o piece(k)]
           A == CHOOSE f : f = Body(f)
           F == [m \in 1 .. n |-> [v \in S |-> v \o piece(m)]]
<1>0. n \in Nat
    BY DEF Text
<1>1. StripJava(t) = A[n]
    <2>1. JavaVisits(t) = at
        BY JavaVisitsAlike
    <2> HIDE DEF at
    <2> QED
        BY <2>1 DEF StripJava, PartOf
<1>2. /\ at \in [0 .. n -> Spots(t)] /\ at[0].pos = 1
      /\ \A m \in 1 .. n : at[m - 1].pos > n => at[m] = at[m - 1]
    BY VisitsMean DEF Walks
<1>3. ASSUME NEW m \in 1 .. n, at[m - 1].pos <= n
      PROVE  /\ piece(m) \in S /\ Len(piece(m)) = at[m].pos - at[m - 1].pos
             /\ \A j \in 1 .. Len(piece(m)) : piece(m)[j] = Blank(t, at[m - 1].pos + j - 1)
    <2>1. m - 1 \in 0 .. n - 1 /\ (m - 1) + 1 = m /\ m - 1 \in 0 .. n
        BY <1>0
    <2>2. ~(at[m - 1].pos > n)
        <3>1. at[m - 1].pos \in Nat
            BY <1>0, <1>2, <2>1 DEF Spots
        <3> QED
            BY <1>0, <1>3, <3>1
    <2>3. piece(m) = PartOf(t, at[m - 1], at[m])
        BY <2>2
    <2> HIDE DEF piece
    <2>4. PICK p : p = at[m - 1].pos
        OBVIOUS
    <2>5. PICK to : to = at[m]
        OBVIOUS
    <2>6. PICK u : u = piece(m)
        OBVIOUS
    <2>7. u \in S /\ Len(u) = to.pos - p /\ \A j \in 1 .. Len(u) : u[j] = Blank(t, p + j - 1)
        <3>1. p = Visits(t)[m - 1].pos /\ p <= Len(t) /\ to = Visits(t)[(m - 1) + 1]
              /\ u = PartOf(t, Visits(t)[m - 1], to)
            BY <1>3, <2>1, <2>3, <2>4, <2>5, <2>6
        <3> QED
            BY <2>1, <3>1, PartMeans
    <2> QED
        BY <2>4, <2>5, <2>6, <2>7
<1> HIDE DEF at
<1>4. \A m \in 1 .. n : piece(m) \in S
    <2>1. ASSUME NEW m \in 1 .. n PROVE piece(m) \in S
        <3>1. m - 1 \in 0 .. n
            BY <1>0
        <3>2. at[m - 1].pos \in Nat
            BY <1>0, <1>2, <3>1 DEF Spots
        <3>3. CASE at[m - 1].pos > n
            <4>1. piece(m) = << >> /\ << >> \in S
                BY <3>3
            <4> HIDE DEF piece, S
            <4> QED
                BY <4>1
        <3>4. CASE ~(at[m - 1].pos > n)
            <4>1. at[m - 1].pos <= n
                BY <1>0, <3>2, <3>4
            <4> HIDE DEF piece
            <4> QED
                BY <1>3, <4>1
        <3> QED
            BY <3>3, <3>4
    <2> QED
        BY <2>1
<1>5. F \in [1 .. n -> [S -> S]]
    <2> HIDE DEF piece
    <2>1. \A m \in 1 .. n : \A v \in S : v \o piece(m) \in S
        BY <1>4, ConcatProperties
    <2> QED
        BY <2>1
<1>6. \A m \in 1 .. n : \A v \in S : F[m][v] = v \o piece(m)
    OBVIOUS
<1>7. << >> \in S
    OBVIOUS
<1> HIDE DEF piece, F, S, A
<1>8. PICK f : Solves(f, n, S, << >>, F)
    BY <1>0, <1>5, <1>7, Recursion
<1>9. f \in [0 .. n -> S] /\ f[0] = << >> /\ \A m \in 1 .. n : f[m] = F[m][f[m - 1]]
    BY <1>8 DEF Solves
<1>10. f = Body(f)
    <2>1. ASSUME NEW k \in 1 .. n PROVE f[k] = f[k - 1] \o piece(k)
        <3>1. f[k - 1] \in S
            BY <1>0, <1>9
        <3> QED
            BY <1>6, <1>9, <3>1
    <2>2. \A k \in 0 .. n : f[k] = Body(f)[k]
        <3>1. \A k \in 0 .. n : k = 0 \/ k \in 1 .. n
            BY <1>0
        <3> QED
            BY <1>9, <2>1, <3>1
    <2>3. f = [k \in 0 .. n |-> f[k]]
        BY <1>9
    <2> QED
        BY <2>2, <2>3
<1>11. A = Body(A)
    BY <1>10 DEF A
<1>12. A[0] = << >> /\ \A k \in 1 .. n : A[k] = A[k - 1] \o piece(k)
    <2> DEFINE value(k) == IF k = 0 THEN << >> ELSE A[k - 1] \o piece(k)
    <2>1. \A k \in 1 .. n : k \in 0 .. n /\ k # 0
        BY <1>0
    <2>2. 0 \in 0 .. n
        BY <1>0
    <2>3. value(0) = << >> /\ \A k : k # 0 => value(k) = A[k - 1] \o piece(k)
        OBVIOUS
    <2>4. A = [k \in 0 .. n |-> value(k)]
        BY <1>11
    <2> HIDE DEF value
    <2>5. \A k \in 0 .. n : A[k] = value(k)
        BY <2>4
    <2> QED
        BY <2>1, <2>2, <2>3, <2>5
<1> DEFINE T == {k \in Nat : Blanked(t, A[k], at[k].pos - 1)}
<1>13. 0 \in T
    <2>1. at[0].pos - 1 = 0 /\ \A j \in 1 .. 0 : FALSE
        BY <1>2
    <2>2. Len(A[0]) = 0 /\ A[0] \in Seq(Marks)
        BY <1>12
    <2>3. Blanked(t, A[0], 0)
        BY <2>1, <2>2 DEF Blanked
    <2> QED
        BY <2>1, <2>3
<1>14. ASSUME NEW k \in 0 .. n - 1, k \in T PROVE k + 1 \in T
    <2>1. k + 1 \in 1 .. n /\ (k + 1) - 1 = k /\ k + 1 \in Nat /\ k \in 0 .. n /\ k + 1 \in 0 .. n
        BY <1>0
    <2>2. A[k + 1] = A[k] \o piece(k + 1)
        BY <1>12, <2>1
    <2>3. at[k].pos \in Nat /\ at[k + 1].pos \in Nat /\ at[k].pos >= 1 /\ at[k + 1].pos >= 1
        BY <1>0, <1>2, <2>1 DEF Spots
    <2>4. /\ A[k] \in S /\ Len(A[k]) = at[k].pos - 1
          /\ \A j \in 1 .. at[k].pos - 1 : A[k][j] = Blank(t, j)
        BY <1>14 DEF Blanked, S
    <2>5. CASE at[k].pos > n
        <3>1. piece(k + 1) = << >> /\ at[k + 1] = at[k]
            BY <1>2, <2>1, <2>5 DEF piece
        <3>2. A[k + 1] = A[k]
            BY <2>2, <2>4, <3>1, ConcatEmptySeq DEF S
        <3>3. Blanked(t, A[k + 1], at[k + 1].pos - 1)
            BY <1>14, <3>1, <3>2
        <3> QED
            BY <2>1, <3>3
    <2>6. CASE ~(at[k].pos > n)
        <3>1. at[k].pos <= n
            BY <1>0, <2>3, <2>6
        <3> DEFINE u == piece(k + 1)
                   v == A[k]
                   p == at[k].pos
                   q == at[k + 1].pos
        <3>2. u \in S /\ Len(u) = q - p /\ \A j \in 1 .. Len(u) : u[j] = Blank(t, p + j - 1)
            BY <1>3, <2>1, <3>1
        <3> HIDE DEF u, v, p, q
        <3>3. /\ v \o u \in S /\ Len(v \o u) = Len(v) + Len(u)
              /\ \A i \in 1 .. Len(v) + Len(u) : (v \o u)[i] = IF i <= Len(v) THEN v[i] ELSE u[i - Len(v)]
            BY <2>4, <3>2, ConcatProperties DEF S, v
        <3>4. p \in Nat /\ q \in Nat /\ p >= 1 /\ Len(v) = p - 1 /\ Len(u) \in Nat
            BY <2>3, <2>4, <3>2 DEF p, q, v, S
        <3>5. \A j \in 1 .. p - 1 : v[j] = Blank(t, j)
            BY <2>4 DEF v, p
        <3>6. ASSUME NEW i \in 1 .. q - 1 PROVE (v \o u)[i] = Blank(t, i)
            <4>1. i \in 1 .. Len(v) + Len(u)
                BY <3>2, <3>4
            <4>2. CASE i <= Len(v)
                <5>1. i \in 1 .. p - 1
                    BY <3>4, <4>2
                <5> QED
                    BY <3>3, <3>5, <4>1, <4>2, <5>1
            <4>3. CASE ~(i <= Len(v))
                <5>1. i - Len(v) \in 1 .. Len(u) /\ p + (i - Len(v)) - 1 = i
                    BY <3>4, <4>1, <4>3
                <5>2. u[i - Len(v)] = Blank(t, i)
                    BY <3>2, <5>1
                <5> QED
                    BY <3>3, <4>1, <4>3, <5>2
            <4> QED
                BY <4>2, <4>3
        <3>7. A[k + 1] = v \o u
            BY <2>2 DEF u, v
        <3>8. Len(v \o u) = q - 1
            BY <3>2, <3>3, <3>4
        <3>9. Blanked(t, A[k + 1], q - 1)
            BY <3>3, <3>6, <3>7, <3>8 DEF Blanked, S
        <3> QED
            BY <2>1, <3>9 DEF q
    <2> QED
        BY <2>5, <2>6
<1>15. T \in SUBSET Nat
    OBVIOUS
<1>16. n \in T
    <2> HIDE DEF T
    <2>1. \A k \in 0 .. n : k \in T
        BY <1>0, <1>13, <1>14, <1>15, UpTo
    <2> QED
        BY <1>0, <2>1
<1>17. at[n].pos = n + 1
    <2> DEFINE U == {k \in Nat : at[k].pos >= k + 1 \/ at[k].pos > n}
    <2>1. 0 \in U
        BY <1>2
    <2>2. ASSUME NEW k \in 0 .. n - 1, k \in U PROVE k + 1 \in U
        <3>1. k + 1 \in 1 .. n /\ (k + 1) - 1 = k /\ k + 1 \in Nat /\ k \in 0 .. n
            BY <1>0
        <3>2. at[k].pos \in Nat
            BY <1>0, <1>2, <3>1 DEF Spots
        <3>3. CASE at[k].pos > n
            BY <1>2, <3>1, <3>3
        <3>4. CASE ~(at[k].pos > n)
            <4>1. at[k].pos <= n
                BY <1>0, <3>2, <3>4
            <4>2. at[k + 1].pos \in {at[k].pos + 1, at[k].pos + 2}
                BY <4>1, VisitsMove DEF at, StepsTo
            <4> QED
                BY <2>2, <3>1, <3>2, <3>4, <4>2
        <3> QED
            BY <3>3, <3>4
    <2>3. U \in SUBSET Nat
        OBVIOUS
    <2>4. n \in U
        <3> HIDE DEF U
        <3>1. \A k \in 0 .. n : k \in U
            BY <1>0, <2>1, <2>2, <2>3, UpTo
        <3> QED
            BY <1>0, <3>1
    <2>5. at[n].pos \in 1 .. n + 1
        <3>1. at[n] \in Spots(t)
            BY <1>0, <1>2
        <3> QED
            BY <3>1 DEF Spots
    <2> QED
        BY <1>0, <2>4, <2>5
<1>18. Blanked(t, A[n], n)
    <2>1. (n + 1) - 1 = n
        BY <1>0
    <2> QED
        BY <1>16, <1>17, <2>1
<1> QED
    BY <1>1, <1>18

(* -------------------------- the class of a text --------------------------- *)

\* The places where a is in u.
PlacesOf(u, a) == {i \in 1 .. Len(u) : u[i] = a}
\* How many of the places in S come up to i.
RankOf(S, i) == Cardinality({j \in S : j <= i})
\* The rank counts the places in their order.
Counts(S, n) ==
    /\ \A i \in S : RankOf(S, i) \in 1 .. n
    /\ \A i, j \in S : i < j => RankOf(S, i) < RankOf(S, j)
    /\ \A m \in 1 .. n : \E i \in S : RankOf(S, i) = m

\* Counting up to a place gives its rank.
LEMMA RanksCount ==
    ASSUME NEW S, \A x \in S : x \in Nat, IsFiniteSet(S)
    PROVE  Cardinality(S) \in Nat /\ Counts(S, Cardinality(S))
<1> DEFINE R == {xy \in S \X S : xy[1] < xy[2]}
           n == Cardinality(S)
<1>0. n \in Nat
    BY FS_CardinalityType
<1>1. Orders(R, S)
    <2>1. \A x \in S : x \in Int
        OBVIOUS
    <2> QED
        BY <2>1 DEF Orders
<1>2. \A i, j \in S : <<i, j>> \in R <=> i < j
    OBVIOUS
<1>02. \A i : Below(R, S, i) = {h \in S : <<h, i>> \in R}
    BY DEF Below
<1> HIDE DEF R
<1>3. ASSUME NEW i \in S PROVE RankOf(S, i) = Cardinality(Below(R, S, i)) + 1
    <2>1. {j \in S : j <= i} = Below(R, S, i) \cup {i} /\ i \notin Below(R, S, i)
        <3>1. \A h : h \in Below(R, S, i) <=> h \in S /\ h < i
            BY <1>02, <1>2
        <3>2. \A h \in S : h <= i <=> h < i \/ h = i
            OBVIOUS
        <3>3. ~(i < i)
            OBVIOUS
        <3> QED
            BY <3>1, <3>2, <3>3
    <2>2. IsFiniteSet(Below(R, S, i))
        <3>1. Below(R, S, i) \in SUBSET S
            BY DEF Below
        <3> QED
            BY <3>1, FS_Subset
    <2>3. Cardinality(Below(R, S, i) \cup {i}) = Cardinality(Below(R, S, i)) + 1
        BY <2>1, <2>2, FS_AddElement
    <2> QED
        BY <2>1, <2>3 DEF RankOf
<1>4. /\ \A i \in S : Cardinality(Below(R, S, i)) \in 0 .. n - 1
      /\ \A i, j \in S : <<i, j>> \in R => Cardinality(Below(R, S, i)) < Cardinality(Below(R, S, j))
      /\ \A m \in 0 .. n - 1 : \E i \in S : Cardinality(Below(R, S, i)) = m
    <2>1. \A i \in S : Cardinality(Below(R, S, i)) \in 0 .. Cardinality(S) - 1
        BY <1>1, Ranks
    <2>2. \A i, j \in S : <<i, j>> \in R => Cardinality(Below(R, S, i)) < Cardinality(Below(R, S, j))
        BY <1>1, Ranks
    <2>3. ASSUME NEW m \in 0 .. Cardinality(S) - 1 PROVE \E i \in S : Cardinality(Below(R, S, i)) = m
        BY <1>1, Ranks
    <2> QED
        BY <2>1, <2>2, <2>3
<1> HIDE DEF n
<1>5. ASSUME NEW i \in S PROVE RankOf(S, i) \in 1 .. n
    BY <1>0, <1>3, <1>4
<1>6. ASSUME NEW i \in S, NEW j \in S, i < j PROVE RankOf(S, i) < RankOf(S, j)
    <2>1. Cardinality(Below(R, S, i)) < Cardinality(Below(R, S, j))
        BY <1>2, <1>4, <1>6
    <2>2. Cardinality(Below(R, S, i)) \in Nat /\ Cardinality(Below(R, S, j)) \in Nat
        BY <1>0, <1>4
    <2> QED
        BY <1>3, <2>1, <2>2
<1>7. ASSUME NEW m \in 1 .. n PROVE \E i \in S : RankOf(S, i) = m
    <2>1. m - 1 \in 0 .. n - 1 /\ (m - 1) + 1 = m
        BY <1>0
    <2>2. PICK i \in S : Cardinality(Below(R, S, i)) = m - 1
        BY <1>4, <2>1
    <2> QED
        BY <1>3, <2>1, <2>2
<1> QED
    BY <1>0, <1>5, <1>6, <1>7 DEF Counts, n

\* v is a piece of u, without the separator.
PieceOf(u, sep, v, a, b) ==
    /\ a \in 1 .. Len(u) + 1 /\ b \in 0 .. Len(u) /\ v = SubSeq(u, a, b)
    /\ \A j \in a .. b : u[j] # sep

\* The parts of a split are such pieces.
LEMMA SplitMeans ==
    ASSUME NEW D, NEW u \in Seq(D), NEW sep
    PROVE  /\ DOMAIN Split(u, sep) = 1 .. Len(Split(u, sep)) /\ Len(Split(u, sep)) \in Nat
           /\ \A k \in DOMAIN Split(u, sep) : \E a, b : PieceOf(u, sep, Split(u, sep)[k], a, b)
<1> DEFINE n == Len(u)
           S == PlacesOf(u, sep)
           m == Cardinality(S)
           bound == [k \in 0 .. m + 1 |->
                        IF k = 0 THEN 0 ELSE IF k > m THEN n + 1 ELSE CHOOSE i \in S : RankOf(S, i) = k]
<1>0. n \in Nat
    OBVIOUS
<1>1. S \in SUBSET (1 .. n) /\ \A i \in 1 .. n : u[i] = sep => i \in S
    BY DEF PlacesOf
<1>2. \A x \in S : x \in Nat
    BY <1>0, <1>1
<1>3. IsFiniteSet(S)
    BY <1>0, <1>1, Upwards, FS_Subset
<1>4. Split(u, sep) = [k \in 1 .. m + 1 |-> SubSeq(u, bound[k - 1] + 1, bound[k] - 1)]
    BY DEF Split, PlacesOf, RankOf
<1> HIDE DEF S
<1>5. m \in Nat /\ Counts(S, m)
    BY <1>2, <1>3, RanksCount
<1> HIDE DEF m
<1>6. /\ \A i \in S : RankOf(S, i) \in 1 .. m
      /\ \A i, j \in S : i < j => RankOf(S, i) < RankOf(S, j)
      /\ \A k \in 1 .. m : \E i \in S : RankOf(S, i) = k
    BY <1>5 DEF Counts
<1>7. /\ bound[0] = 0 /\ bound[m + 1] = n + 1
      /\ \A k \in 1 .. m : bound[k] \in S /\ RankOf(S, bound[k]) = k
    <2>1. 0 \in 0 .. m + 1 /\ m + 1 \in 0 .. m + 1 /\ m + 1 > m /\ m + 1 # 0
        BY <1>5
    <2>2. \A k \in 1 .. m : k \in 0 .. m + 1 /\ k # 0 /\ ~(k > m)
        BY <1>5
    <2>3. \A k \in 1 .. m : bound[k] = CHOOSE i \in S : RankOf(S, i) = k
        BY <2>2
    <2>4. bound[0] = 0 /\ bound[m + 1] = n + 1
        BY <2>1
    <2> HIDE DEF bound
    <2> QED
        BY <1>6, <2>3, <2>4
<1> HIDE DEF bound
<1>8. ASSUME NEW k \in 1 .. m + 1
      PROVE  PieceOf(u, sep, SubSeq(u, bound[k - 1] + 1, bound[k] - 1), bound[k - 1] + 1, bound[k] - 1)
    <2>1. k - 1 = 0 \/ k - 1 \in 1 .. m
        BY <1>5
    <2>2. k = m + 1 \/ k \in 1 .. m
        BY <1>5
    <2>3. bound[k - 1] \in 0 .. n
        <3>1. CASE k - 1 = 0
            BY <1>0, <1>7, <3>1
        <3>2. CASE k - 1 \in 1 .. m
            <4>1. bound[k - 1] \in 1 .. n
                BY <1>1, <1>7, <3>2
            <4> QED
                BY <1>0, <4>1
        <3> QED
            BY <2>1, <3>1, <3>2
    <2>4. bound[k] \in 1 .. n + 1
        <3>1. CASE k = m + 1
            BY <1>0, <1>7, <3>1
        <3>2. CASE k \in 1 .. m
            <4>1. bound[k] \in 1 .. n
                BY <1>1, <1>7, <3>2
            <4> QED
                BY <1>0, <4>1
        <3> QED
            BY <2>2, <3>1, <3>2
    <2>5. ASSUME NEW j \in bound[k - 1] + 1 .. bound[k] - 1, u[j] = sep PROVE FALSE
        <3>1. j \in S /\ bound[k - 1] < j /\ j < bound[k]
            BY <1>0, <1>1, <2>3, <2>4, <2>5
        <3>2. RankOf(S, j) \in 1 .. m
            BY <1>6, <3>1
        <3>3. k - 1 < RankOf(S, j)
            <4>1. CASE k - 1 = 0
                BY <3>2, <4>1
            <4>2. CASE k - 1 \in 1 .. m
                <5>1. bound[k - 1] \in S /\ RankOf(S, bound[k - 1]) = k - 1
                    BY <1>7, <4>2
                <5> QED
                    BY <1>6, <3>1, <5>1
            <4> QED
                BY <2>1, <4>1, <4>2
        <3>4. RankOf(S, j) < k
            <4>1. CASE k = m + 1
                BY <1>5, <3>2, <4>1
            <4>2. CASE k \in 1 .. m
                <5>1. bound[k] \in S /\ RankOf(S, bound[k]) = k
                    BY <1>7, <4>2
                <5> QED
                    BY <1>6, <3>1, <5>1
            <4> QED
                BY <2>2, <4>1, <4>2
        <3> QED
            BY <1>5, <3>2, <3>3, <3>4
    <2>6. bound[k - 1] + 1 \in 1 .. n + 1 /\ bound[k] - 1 \in 0 .. n
        BY <1>0, <2>3, <2>4
    <2> QED
        BY <2>5, <2>6 DEF PieceOf
<1> DEFINE P == Split(u, sep)
<1>9. DOMAIN P = 1 .. m + 1 /\ \A k \in 1 .. m + 1 : P[k] = SubSeq(u, bound[k - 1] + 1, bound[k] - 1)
    BY <1>4
<1>10. Len(P) = m + 1
    BY <1>4, <1>5
<1> HIDE DEF P
<1>11. DOMAIN P = 1 .. Len(P) /\ Len(P) \in Nat
    BY <1>5, <1>9, <1>10
<1>12. ASSUME NEW k \in DOMAIN P PROVE \E a, b : PieceOf(u, sep, P[k], a, b)
    BY <1>8, <1>9
<1> QED
    BY <1>11, <1>12 DEF P

\* The name stands in the line right after the keyword, without a blank.
After(line, keyword, name, i) ==
    /\ i \in 1 .. Len(line) /\ line[i] = keyword
    /\ Len(name) \in Nat /\ i + Len(name) <= Len(line)
    /\ \A j \in 1 .. Len(name) : name[j] = line[i + j] /\ line[i + j] # "w"

\* The name that is found is such a one.
LEMMA NameAfterMeans ==
    ASSUME NEW D, NEW line \in Seq(D), NEW keyword, NameAfter(line, keyword) # << >>
    PROVE  /\ NameAfter(line, keyword) \in Seq(D)
           /\ \E i : After(line, keyword, NameAfter(line, keyword), i)
<1> DEFINE n == Len(line)
           S == {i \in 1 .. n : line[i] = keyword}
           i == Least(S)
           rest == SubSeq(line, i + 1, n)
           ends == {h \in 0 .. Len(rest) : \/ h = Len(rest) \/ rest[h + 1] = "w"
                                           \/ h > 0 /\ rest[h] \in {"C", "I", "P"}}
           e == Least(ends)
           name == SubSeq(rest, 1, e)
<1>0. n \in Nat /\ DOMAIN line = 1 .. n /\ \A j \in 1 .. n : line[j] \in D
    OBVIOUS
<1>1. keyword \in ToSet(line) /\ NameAfter(line, keyword) = name
    BY DEF NameAfter
<1>2. S # {} /\ S \in SUBSET Nat
    BY <1>0, <1>1 DEF ToSet
<1>3. i \in S
    <2> HIDE DEF S
    <2> QED
        BY <1>2, FirstMeans
<1>4. i \in 1 .. n /\ line[i] = keyword /\ i \in Nat
    BY <1>0, <1>3
<1> HIDE DEF i, S
<1>5. rest \in Seq(D) /\ Len(rest) = n - i /\ \A j \in 1 .. n - i : rest[j] = line[i + j]
    <2>1. i + 1 \in Int /\ n \in Int /\ \A j \in i + 1 .. n : line[j] \in D
        BY <1>0, <1>4
    <2>2. /\ rest \in Seq(D)
          /\ Len(rest) = IF i + 1 <= n THEN n - (i + 1) + 1 ELSE 0
          /\ \A j \in 1 .. n - (i + 1) + 1 : rest[j] = line[(i + 1) + j - 1]
        BY <2>1, SubSeqProperties
    <2>3. n - (i + 1) + 1 = n - i /\ (i + 1 <= n \/ n - i = 0)
        <3>1. i <= n
            BY <1>0, <1>4
        <3> HIDE DEF n
        <3> QED
            BY <1>0, <1>4, <3>1
    <2>4. \A j \in 1 .. n - i : (i + 1) + j - 1 = i + j
        BY <1>0, <1>4
    <2> HIDE DEF rest
    <2> QED
        BY <2>2, <2>3, <2>4
<1> HIDE DEF rest
<1>6. Len(rest) \in ends /\ ends \in SUBSET Nat /\ Len(rest) \in Nat
    BY <1>0, <1>4, <1>5
<1>7. e \in ends /\ \A h \in ends : e <= h
    <2> HIDE DEF ends
    <2> QED
        BY <1>6, FirstMeans
<1>8. e \in 0 .. Len(rest) /\ e \in Nat
    BY <1>7
<1>9. ASSUME NEW j \in 1 .. e PROVE rest[j] # "w"
    <2>1. j - 1 \in 0 .. Len(rest) /\ ~(e <= j - 1) /\ (j - 1) + 1 = j
        BY <1>6, <1>8
    <2>2. j - 1 \notin ends
        BY <1>7, <2>1
    <2> QED
        BY <2>1, <2>2
<1> HIDE DEF e, ends
<1>10. name \in Seq(D) /\ Len(name) = e /\ \A j \in 1 .. e : name[j] = rest[j]
    <2>1. 1 \in Int /\ e \in Int /\ \A j \in 1 .. e : rest[j] \in D
        BY <1>5, <1>6, <1>8
    <2>2. /\ name \in Seq(D) /\ Len(name) = IF 1 <= e THEN e - 1 + 1 ELSE 0
          /\ \A j \in 1 .. e - 1 + 1 : name[j] = rest[1 + j - 1]
        BY <2>1, SubSeqProperties
    <2>3. e - 1 + 1 = e /\ (1 <= e \/ e = 0) /\ \A j \in 1 .. e : 1 + j - 1 = j
        BY <1>8
    <2> HIDE DEF name
    <2> QED
        BY <2>2, <2>3
<1> HIDE DEF name
<1>11. i + Len(name) <= n /\ \A j \in 1 .. e : j \in 1 .. n - i
    BY <1>0, <1>4, <1>5, <1>8, <1>10
<1>12. \A j \in 1 .. e : name[j] = line[i + j] /\ line[i + j] # "w"
    BY <1>5, <1>9, <1>10, <1>11
<1>13. After(line, keyword, name, i)
    BY <1>4, <1>8, <1>10, <1>11, <1>12 DEF After
<1> QED
    BY <1>1, <1>10, <1>13

\* What is left of a text has only the text's characters and blanks.
LEMMA BlankTells ==
    ASSUME NEW t, NEW j, NEW c, c # "w", c # "n", Blank(t, j) = c
    PROVE  j \in InCode(t) /\ t[j] = c
BY DEF Blank

\* The class that the Java scanner names is declared in code.
LEMMA JavaClassMeans ==
    ASSUME NEW t \in Text, JavaLike(t), JavaClass(t) # << >>
    PROVE  \E i \in InCode(t) : /\ t[i] \in {"C", "I"}
                                /\ Has(t, i + 1, JavaClass(t))
                                /\ i .. i + Len(JavaClass(t)) \subseteq InCode(t)
<1> DEFINE n == Len(t)
           u == StripJava(t)
           lines == Lines(u)
           key(k) == IF k % 2 = 1 THEN "C" ELSE "I"
           names == [k \in 1 .. 2 * Len(lines) |-> NameAfter(lines[(k + 1) \div 2], key(k))]
           found == {k \in DOMAIN names : names[k] # << >>}
           class == JavaClass(t)
<1>0. n \in Nat /\ DOMAIN t = 1 .. n
    BY DEF Text
<1>1. u \in Seq(Marks) /\ Len(u) = n /\ \A j \in 1 .. n : u[j] = Blank(t, j)
    BY StripMeans DEF Blanked
<1>2. class = IF found = {} THEN << >> ELSE names[Least(found)]
    BY DEF JavaClass, FirstNonEmpty
<1> HIDE DEF u
<1>3. /\ DOMAIN lines = 1 .. Len(lines) /\ Len(lines) \in Nat
      /\ \A k \in DOMAIN lines : \E a, b : PieceOf(u, "n", lines[k], a, b)
    BY <1>1, SplitMeans DEF Lines
<1> HIDE DEF lines, class
<1>4. PICK k \in 1 .. 2 * Len(lines) : class = names[k]
    <2>1. found # {}
        BY <1>2 DEF class
    <2>2. found \in SUBSET (1 .. 2 * Len(lines)) /\ found \in SUBSET Nat
        BY <1>3
    <2> HIDE DEF found, names
    <2>3. Least(found) \in found
        BY <2>1, <2>2, FirstMeans
    <2> QED
        BY <1>2, <2>1, <2>2, <2>3
<1>5. class = NameAfter(lines[(k + 1) \div 2], key(k)) /\ class # << >>
    BY <1>4 DEF class
<1>6. (k + 1) \div 2 \in DOMAIN lines
    <2>1. k \in Nat /\ 1 <= k /\ k <= 2 * Len(lines)
        BY <1>3
    <2>2. (k + 1) \div 2 \in 1 .. Len(lines)
        BY <1>3, <2>1
    <2> QED
        BY <1>3, <2>2
<1>7. PICK line : line = lines[(k + 1) \div 2]
    OBVIOUS
<1>8. PICK a, b : PieceOf(u, "n", line, a, b)
    BY <1>3, <1>6, <1>7
<1>9. /\ a \in 1 .. n + 1 /\ b \in 0 .. n /\ line = SubSeq(u, a, b)
      /\ \A j \in a .. b : u[j] # "n"
    BY <1>1, <1>8 DEF PieceOf
<1>10. /\ line \in Seq(Marks) /\ Len(line) = IF a <= b THEN b - a + 1 ELSE 0
       /\ \A j \in 1 .. b - a + 1 : line[j] = u[a + j - 1]
    <2>1. a \in Int /\ b \in Int
        BY <1>0, <1>9
    <2>2. \A j \in a .. b : u[j] \in Marks
        <3>1. \A j \in a .. b : j \in 1 .. Len(u)
            BY <1>0, <1>1, <1>9
        <3> QED
            BY <1>1, <3>1
    <2> QED
        BY <1>9, <2>1, <2>2, SubSeqProperties
<1>11. PICK c : c = key(k)
    OBVIOUS
<1>12. c \in {"C", "I"} /\ c # "w" /\ c # "n"
    BY <1>11
<1> HIDE DEF key
<1>13. class = NameAfter(line, c) /\ class # << >>
    BY <1>5, <1>7, <1>11
<1>14. class \in Seq(Marks) /\ \E i : After(line, c, class, i)
    BY <1>10, <1>13, NameAfterMeans
<1>15. PICK i : After(line, c, class, i)
    BY <1>14
<1>16. /\ i \in 1 .. Len(line) /\ line[i] = c /\ Len(class) \in Nat /\ i + Len(class) <= Len(line)
       /\ \A j \in 1 .. Len(class) : class[j] = line[i + j] /\ line[i + j] # "w"
    BY <1>15 DEF After
<1> DEFINE e == Len(class)
           g == a + i - 1
<1>17. a \in Nat /\ b \in Nat /\ a <= b /\ Len(line) = b - a + 1 /\ i \in Nat
    BY <1>0, <1>9, <1>10, <1>16
<1>18. \A j \in 1 .. b - a + 1 : line[j] = Blank(t, a + j - 1) /\ line[j] # "n"
    <2>1. ASSUME NEW j \in 1 .. b - a + 1 PROVE line[j] = Blank(t, a + j - 1) /\ line[j] # "n"
        <3>1. a + j - 1 \in a .. b /\ a + j - 1 \in 1 .. n
            BY <1>0, <1>9, <1>17
        <3> QED
            BY <1>1, <1>9, <1>10, <3>1
    <2> QED
        BY <2>1
<1>19. g \in InCode(t) /\ t[g] = c
    <2>1. Blank(t, g) = c
        BY <1>16, <1>17, <1>18
    <2> QED
        BY <1>12, <2>1, BlankTells
<1>20. ASSUME NEW j \in 1 .. e PROVE g + j \in InCode(t) /\ t[g + j] = class[j]
    <2>1. i + j \in 1 .. b - a + 1 /\ a + (i + j) - 1 = g + j
        BY <1>16, <1>17
    <2>2. Blank(t, g + j) = class[j] /\ class[j] # "w" /\ class[j] # "n"
        BY <1>16, <1>18, <2>1
    <2> QED
        BY <2>2, BlankTells
<1>21. g \in Nat /\ g >= 1 /\ g + e <= n /\ e \in Nat
    <2>1. g + e <= b
        BY <1>16, <1>17
    <2> QED
        BY <1>0, <1>9, <1>16, <1>17, <2>1
<1> HIDE DEF e, g
<1>22. \A x \in g .. g + e : x \in InCode(t)
    <2>1. ASSUME NEW x \in g .. g + e PROVE x \in InCode(t)
        <3>1. x = g \/ (x - g \in 1 .. e /\ g + (x - g) = x)
            BY <1>21
        <3> QED
            BY <1>19, <1>20, <3>1
    <2> QED
        BY <2>1
<1>23. Has(t, g + 1, class)
    <2>1. PICK from \in Int : from = g + 1
        BY <1>21
    <2>2. PICK to \in Int : to = g + e
        BY <1>21
    <2> DEFINE v == SubSeq(t, from, to)
    <2>3. \A j \in from .. to : t[j] \in STRING
        <3>1. \A j \in from .. to : j \in 1 .. n
            BY <1>0, <1>21, <2>1, <2>2
        <3> QED
            BY <3>1 DEF Text
    <2>4. /\ v \in Seq(STRING) /\ Len(v) = IF from <= to THEN to - from + 1 ELSE 0
          /\ \A j \in 1 .. to - from + 1 : v[j] = t[from + j - 1]
        BY <2>3, SubSeqProperties
    <2>5. to - from + 1 = e /\ (from <= to \/ e = 0)
        BY <1>21, <2>1, <2>2
    <2> HIDE DEF v
    <2>6. Len(v) = e /\ \A j \in 1 .. e : v[j] = class[j]
        <3>1. ASSUME NEW j \in 1 .. e PROVE v[j] = class[j]
            <4>1. from + j - 1 = g + j
                BY <1>21, <2>1
            <4> QED
                BY <1>20, <2>4, <2>5, <4>1
        <3> QED
            BY <2>4, <2>5, <3>1
    <2>7. v = class
        <3>1. v = [j \in 1 .. e |-> v[j]]
            BY <2>4, <2>6
        <3>2. class = [j \in 1 .. e |-> class[j]]
            BY <1>14 DEF e
        <3> QED
            BY <2>6, <3>1, <3>2
    <2>8. g + 1 + Len(class) - 1 = to /\ to <= Len(t)
        BY <1>21, <2>2 DEF e
    <2> QED
        BY <2>1, <2>7, <2>8 DEF Has, v
<1> QED
    BY <1>12, <1>19, <1>22, <1>23 DEF e, class

(* ------------------------------ server edits ------------------------------ *)

\* What a file may hold, and all the workspaces and outcomes there are.
Sheet == Seq(STRING \cup {"t"})
Trees == UNION {[P -> Sheet] : P \in SUBSET Paths}
\* All the changes there are, with those that a move has redirected.
AnyChange ==
    [kind : Kinds, path : Paths, to : Paths, overwrite : BOOLEAN, ignore : BOOLEAN, start : BOOLEAN]
FileOutcomes == {Failed} \cup {Files(f) : f \in Trees}

\* A workspace maps some of the paths to sheets.
LEMMA TreeMeans ==
    ASSUME NEW f
    PROVE  f \in Trees <=> /\ DOMAIN f \subseteq Paths /\ f = [p \in DOMAIN f |-> f[p]]
                           /\ \A p \in DOMAIN f : f[p] \in Sheet
<1>1. ASSUME f \in Trees
      PROVE  /\ DOMAIN f \subseteq Paths /\ f = [p \in DOMAIN f |-> f[p]]
             /\ \A p \in DOMAIN f : f[p] \in Sheet
    <2>1. PICK P \in SUBSET Paths : f \in [P -> Sheet]
        BY <1>1 DEF Trees
    <2> QED
        BY <2>1
<1>2. ASSUME DOMAIN f \subseteq Paths, f = [p \in DOMAIN f |-> f[p]], \A p \in DOMAIN f : f[p] \in Sheet
      PROVE  f \in Trees
    <2>1. f \in [DOMAIN f -> Sheet]
        BY <1>2
    <2> QED
        BY <1>2, <2>1 DEF Trees
<1> QED
    BY <1>1, <1>2

\* The sheets that a change writes.
LEMMA SheetsMean ==
    /\ << >> \in Sheet
    /\ \A c : \A s \in Sheet : Inserted(s, c) \in Sheet
<1> DEFINE M == STRING \cup {"t"}
<1>1. << >> \in Seq(M)
    OBVIOUS
<1>2. "t" \in M
    OBVIOUS
<1> HIDE DEF M
<1>3. \A s \in Seq(M) : <<"t">> \o s \in Seq(M) /\ Append(s, "t") \in Seq(M)
    <2>1. <<"t">> \in Seq(M)
        BY <1>2
    <2> QED
        BY <1>2, <2>1
<1>4. \A c : \A s \in Seq(M) : Inserted(s, c) \in Seq(M)
    BY <1>3 DEF Inserted
<1> QED
    BY <1>1, <1>4 DEF Sheet, M

\* Putting a file there or taking it away gives a workspace again.
LEMMA TreesChange ==
    ASSUME NEW f \in Trees, NEW p \in Paths
    PROVE  /\ Without(f, p) \in Trees
           /\ \A s \in Sheet : Put(f, p, s) \in Trees
<1>1. DOMAIN f \subseteq Paths /\ \A q \in DOMAIN f : f[q] \in Sheet
    BY TreeMeans
<1>2. Without(f, p) \in Trees
    <2> DEFINE g == Without(f, p)
    <2>1. /\ DOMAIN g \subseteq Paths /\ g = [q \in DOMAIN g |-> g[q]]
          /\ \A q \in DOMAIN g : g[q] \in Sheet
        BY <1>1 DEF Without
    <2> HIDE DEF g
    <2> QED
        BY <2>1, TreeMeans DEF g
<1>3. ASSUME NEW s \in Sheet PROVE Put(f, p, s) \in Trees
    <2> DEFINE g == Put(f, p, s)
    <2>1. /\ DOMAIN g \subseteq Paths /\ g = [q \in DOMAIN g |-> g[q]]
          /\ \A q \in DOMAIN g : g[q] \in Sheet
        BY <1>1 DEF Put
    <2> HIDE DEF g
    <2> QED
        BY <2>1, TreeMeans DEF g
<1> QED
    BY <1>2, <1>3

\* The paths of a change, and two workspaces that are the same at some paths.
Touched(c) == IF c.kind = "rename" THEN {c.path, c.to} ELSE {c.path}
Same(f, g, P) == \A p \in P : (p \in DOMAIN f <=> p \in DOMAIN g) /\ (p \in DOMAIN f => f[p] = g[p])
Disjoint(c, d) == Touched(c) \cap Touched(d) = {}

\* What a change makes of a workspace, if it works.
Feasible(f, c) ==
    /\ c.kind = "create" => c.path \notin DOMAIN f \/ c.overwrite \/ c.ignore
    /\ c.kind = "edit" => c.path \in DOMAIN f /\ Fits(f[c.path], c)
    /\ c.kind = "rename" => IF c.to \in DOMAIN f /\ ~c.overwrite THEN c.ignore ELSE c.path \in DOMAIN f
    /\ c.kind = "delete" => c.path \in DOMAIN f \/ c.ignore
MadeBy(f, c) ==
    IF c.kind = "create" THEN IF c.path \notin DOMAIN f \/ c.overwrite THEN Put(f, c.path, << >>) ELSE f
    ELSE IF c.kind = "edit" THEN Put(f, c.path, Inserted(f[c.path], c))
    ELSE IF c.kind = "rename"
         THEN IF c.to \in DOMAIN f /\ ~c.overwrite THEN f ELSE Put(Without(f, c.path), c.to, f[c.path])
    ELSE IF c.path \in DOMAIN f THEN Without(f, c.path) ELSE f

\* A change works or fails.
LEMMA PerformMeans ==
    ASSUME NEW f, NEW c \in AnyChange
    PROVE  Perform(Files(f), c) = IF Feasible(f, c) THEN Files(MadeBy(f, c)) ELSE Failed
<1>0. c.kind \in Kinds /\ c.overwrite \in BOOLEAN /\ c.ignore \in BOOLEAN
    BY DEF AnyChange
<1>1. Files(f).ok /\ Files(f).files = f
    BY DEF Files
<1>2. CASE c.kind = "create"
    BY <1>0, <1>1, <1>2 DEF Perform, Create, Feasible, MadeBy
<1>3. CASE c.kind = "edit"
    BY <1>0, <1>1, <1>3 DEF Perform, EditText, Feasible, MadeBy
<1>4. CASE c.kind = "rename"
    BY <1>0, <1>1, <1>4 DEF Perform, Rename, Feasible, MadeBy
<1>5. CASE c.kind = "delete"
    BY <1>0, <1>1, <1>5 DEF Perform, Delete, Feasible, MadeBy
<1> QED
    BY <1>0, <1>2, <1>3, <1>4, <1>5 DEF Kinds

\* What it makes is a workspace, and the same where the change has no path.
LEMMA MadeMeans ==
    ASSUME NEW f \in Trees, NEW c \in AnyChange, Feasible(f, c)
    PROVE  MadeBy(f, c) \in Trees /\ \A P : P \cap Touched(c) = {} => Same(f, MadeBy(f, c), P)
<1>0. c.kind \in Kinds /\ c.path \in Paths /\ c.to \in Paths /\ c.overwrite \in BOOLEAN
    BY DEF AnyChange
<1>1. \A q \in DOMAIN f : f[q] \in Sheet
    BY TreeMeans
<1>2. CASE c.kind = "create"
    BY <1>0, <1>2, SheetsMean, TreesChange DEF MadeBy, Same, Touched, Put
<1>3. CASE c.kind = "edit"
    <2>1. c.path \in DOMAIN f
        BY <1>3 DEF Feasible
    <2>2. Inserted(f[c.path], c) \in Sheet
        BY <1>1, <2>1, SheetsMean
    <2>3. MadeBy(f, c) = Put(f, c.path, Inserted(f[c.path], c))
        BY <1>3 DEF MadeBy
    <2> QED
        BY <1>0, <2>2, <2>3, TreesChange DEF Same, Touched, Put
<1>4. CASE c.kind = "rename"
    <2>1. CASE c.to \in DOMAIN f /\ ~c.overwrite
        BY <1>4, <2>1 DEF MadeBy, Same
    <2>2. CASE ~(c.to \in DOMAIN f /\ ~c.overwrite)
        <3>1. c.path \in DOMAIN f
            BY <1>4, <2>2 DEF Feasible
        <3>2. MadeBy(f, c) = Put(Without(f, c.path), c.to, f[c.path])
            BY <1>4, <2>2 DEF MadeBy
        <3>3. Put(Without(f, c.path), c.to, f[c.path]) \in Trees
            BY <1>0, <1>1, <3>1, TreesChange
        <3>4. Touched(c) = {c.path, c.to}
            BY <1>4 DEF Touched
        <3> QED
            BY <3>2, <3>3, <3>4 DEF Same, Put, Without
    <2> QED
        BY <2>1, <2>2
<1>5. CASE c.kind = "delete"
    BY <1>0, <1>5, TreesChange DEF MadeBy, Same, Touched, Without
<1> QED
    BY <1>0, <1>2, <1>3, <1>4, <1>5 DEF Kinds

\* Whether it works and what it makes of its paths depends on nothing else.
LEMMA MadeAlike ==
    ASSUME NEW f, NEW g, NEW c \in AnyChange, Same(f, g, Touched(c))
    PROVE  /\ Feasible(f, c) <=> Feasible(g, c)
           /\ Feasible(f, c) => Same(MadeBy(f, c), MadeBy(g, c), Touched(c))
<1>0. c.kind \in Kinds /\ c.overwrite \in BOOLEAN 
    BY DEF AnyChange
<1>1. /\ c.path \in DOMAIN f <=> c.path \in DOMAIN g
      /\ c.path \in DOMAIN f => f[c.path] = g[c.path]
      /\ c.kind = "rename" => c.to \in DOMAIN f <=> c.to \in DOMAIN g
    BY DEF Same, Touched
<1>2. Feasible(f, c) <=> Feasible(g, c)
    BY <1>1 DEF Feasible
<1>3. ASSUME Feasible(f, c) PROVE Same(MadeBy(f, c), MadeBy(g, c), Touched(c))
    <2>1. CASE c.kind = "create"
        BY <1>0, <1>1, <2>1 DEF MadeBy, Same, Touched, Put
    <2>2. CASE c.kind = "edit"
        <3>1. c.path \in DOMAIN f
            BY <1>3, <2>2 DEF Feasible
        <3> QED
            BY <1>0, <1>1, <2>2, <3>1 DEF MadeBy, Same, Touched, Put
    <2>3. CASE c.kind = "rename"
        <3>1. CASE c.to \in DOMAIN f /\ ~c.overwrite
            BY <1>1, <2>3, <3>1 DEF MadeBy, Same, Touched
        <3>2. CASE ~(c.to \in DOMAIN f /\ ~c.overwrite)
            <4>1. c.path \in DOMAIN f
                BY <1>3, <2>3, <3>2 DEF Feasible
            <4> QED
                BY <1>1, <2>3, <3>2, <4>1 DEF MadeBy, Same, Touched, Put, Without
        <3> QED
            BY <3>1, <3>2
    <2>4. CASE c.kind = "delete"
        BY <1>0, <1>1, <2>4 DEF MadeBy, Same, Touched, Without
    <2> QED
        BY <1>0, <2>1, <2>2, <2>3, <2>4 DEF Kinds
<1> QED
    BY <1>2, <1>3

\* An outcome is a failure or a workspace, and stays one.
LEMMA PerformTyped ==
    ASSUME NEW r \in FileOutcomes, NEW c \in AnyChange
    PROVE  /\ Perform(r, c) \in FileOutcomes
           /\ r = Failed \/ \E f \in Trees : r = Files(f)
           /\ Perform(Failed, c) = Failed
<1>1. Perform(Failed, c) = Failed
    BY DEF Perform, Failed
<1>2. r = Failed \/ \E f \in Trees : r = Files(f)
    BY DEF FileOutcomes
<1>3. ASSUME NEW f \in Trees PROVE Perform(Files(f), c) \in FileOutcomes
    BY PerformMeans, MadeMeans DEF FileOutcomes
<1> QED
    BY <1>1, <1>2, <1>3 DEF FileOutcomes

\* Workspaces that are the same at all paths are the same.
LEMMA SameIsEqual ==
    ASSUME NEW f \in Trees, NEW g \in Trees, Same(f, g, Paths)
    PROVE  f = g
<1>1. /\ DOMAIN f \subseteq Paths /\ f = [p \in DOMAIN f |-> f[p]]
      /\ DOMAIN g \subseteq Paths /\ g = [p \in DOMAIN g |-> g[p]]
    BY TreeMeans
<1>2. DOMAIN f = DOMAIN g /\ \A p \in DOMAIN f : f[p] = g[p]
    BY <1>1 DEF Same
<1> QED
    BY <1>1, <1>2

\* AnyChange that have no path in common may be made in either order.
LEMMA Commute ==
    ASSUME NEW r \in FileOutcomes, NEW c \in AnyChange, NEW d \in AnyChange, Disjoint(c, d)
    PROVE  Perform(Perform(r, c), d) = Perform(Perform(r, d), c)
<1>1. CASE r = Failed
    BY <1>1, PerformTyped
<1>2. ASSUME NEW f \in Trees, r = Files(f)
      PROVE  Perform(Perform(r, c), d) = Perform(Perform(r, d), c)
    <2> DEFINE fc == MadeBy(f, c)
               fd == MadeBy(f, d)
    <2>0. Touched(d) \cap Touched(c) = {} /\ Touched(c) \cap Touched(d) = {}
        BY DEF Disjoint
    <2>1. /\ Perform(r, c) = IF Feasible(f, c) THEN Files(fc) ELSE Failed
          /\ Perform(r, d) = IF Feasible(f, d) THEN Files(fd) ELSE Failed
          /\ Perform(Files(fc), d) = IF Feasible(fc, d) THEN Files(MadeBy(fc, d)) ELSE Failed
          /\ Perform(Files(fd), c) = IF Feasible(fd, c) THEN Files(MadeBy(fd, c)) ELSE Failed
          /\ Perform(Failed, c) = Failed /\ Perform(Failed, d) = Failed
        BY <1>2, PerformMeans, PerformTyped
    <2>2. Feasible(f, c) => fc \in Trees /\ \A P : P \cap Touched(c) = {} => Same(f, fc, P)
        BY MadeMeans
    <2>3. Feasible(f, d) => fd \in Trees /\ \A P : P \cap Touched(d) = {} => Same(f, fd, P)
        BY MadeMeans
    <2> HIDE DEF fc, fd
    <2>4. Feasible(f, c) => (Feasible(f, d) <=> Feasible(fc, d))
        BY <2>0, <2>2, MadeAlike
    <2>5. Feasible(f, d) => (Feasible(f, c) <=> Feasible(fd, c))
        BY <2>0, <2>3, MadeAlike
    <2>6. ASSUME Feasible(f, c), Feasible(f, d)
          PROVE  MadeBy(fc, d) = MadeBy(fd, c)
        <3> DEFINE x == MadeBy(fc, d)
                   y == MadeBy(fd, c)
                   O == Paths \ (Touched(c) \cup Touched(d))
        <3>1. Feasible(fc, d) /\ Feasible(fd, c) /\ fc \in Trees /\ fd \in Trees
            BY <2>2, <2>3, <2>4, <2>5, <2>6
        <3>2. /\ x \in Trees /\ \A P : P \cap Touched(d) = {} => Same(fc, x, P)
              /\ y \in Trees /\ \A P : P \cap Touched(c) = {} => Same(fd, y, P)
            BY <3>1, MadeMeans
        <3>3. Same(f, fd, Touched(c)) /\ Same(f, fc, Touched(d))
            BY <2>0, <2>2, <2>3, <2>6
        <3>4. Same(fc, y, Touched(c)) /\ Same(fd, x, Touched(d))
            BY <2>6, <3>3, MadeAlike DEF fc, fd
        <3>5. Same(fc, x, Touched(c)) /\ Same(fd, y, Touched(d))
            BY <2>0, <3>2
        <3>6. Same(f, fc, O) /\ Same(f, fd, O) /\ Same(fc, x, O) /\ Same(fd, y, O)
            <4>1. O \cap Touched(c) = {} /\ O \cap Touched(d) = {}
                OBVIOUS
            <4> HIDE DEF O
            <4> QED
                BY <2>2, <2>3, <2>6, <3>2, <4>1
        <3>7. \A p \in Paths : p \in O \/ p \in Touched(c) \/ p \in Touched(d)
            OBVIOUS
        <3> HIDE DEF x, y, O
        <3>8. Same(x, y, Paths)
            BY <3>4, <3>5, <3>6, <3>7 DEF Same
        <3>9. x = y
            BY <3>2, <3>8, SameIsEqual
        <3> QED
            BY <3>9 DEF x, y
    <2> QED
        BY <2>1, <2>4, <2>5, <2>6
<1> QED
    BY <1>1, <1>2, PerformTyped

\* a is what the prefixes of s make of r.
Runs(a, r, s) ==
    /\ DOMAIN a = 0 .. Len(s) /\ a[0] = r
    /\ \A k \in 1 .. Len(s) : a[k] = Perform(a[k - 1], s[k])
Typed(a, s) == a \in [0 .. Len(s) -> FileOutcomes]

\* There is one way to run changes.
LEMMA RunsOnce ==
    ASSUME NEW r, NEW s \in Seq(AnyChange), NEW a, NEW b, Runs(a, r, s), Runs(b, r, s)
    PROVE  \A k \in 0 .. Len(s) : b[k] = a[k]
<1> DEFINE T == {k \in Nat : b[k] = a[k]}
<1>0. Len(s) \in Nat
    OBVIOUS
<1>1. 0 \in T
    BY DEF Runs
<1>2. ASSUME NEW k \in 0 .. Len(s) - 1, k \in T PROVE k + 1 \in T
    <2>1. k + 1 \in 1 .. Len(s) /\ (k + 1) - 1 = k /\ k + 1 \in Nat
        BY <1>0
    <2>2. a[k + 1] = Perform(a[k], s[k + 1]) /\ b[k + 1] = Perform(b[k], s[k + 1])
        BY <2>1 DEF Runs
    <2> QED
        BY <1>2, <2>1, <2>2
<1>3. T \in SUBSET Nat
    OBVIOUS
<1>4. \A k \in 0 .. Len(s) : k \in T
    <2> HIDE DEF T
    <2> QED
        BY <1>0, <1>1, <1>2, <1>3, UpTo
<1> QED
    BY <1>4

\* Outcome runs the changes.
LEMMA OutcomeRuns ==
    ASSUME NEW r \in FileOutcomes, NEW s \in Seq(AnyChange)
    PROVE  \E a : Runs(a, r, s) /\ Typed(a, s) /\ Outcome(r, s) = a[Len(s)]
<1> DEFINE n == Len(s)
           F == [m \in 1 .. n |-> [x \in FileOutcomes |-> Perform(x, s[m])]]
           Body(f) == [k \in 0 .. n |-> IF k = 0 THEN r ELSE Perform(f[k - 1], s[k])]
           A == CHOOSE f : f = Body(f)
<1>0. n \in Nat /\ \A k \in 1 .. n : s[k] \in AnyChange
    OBVIOUS
<1>1. F \in [1 .. n -> [FileOutcomes -> FileOutcomes]]
    BY <1>0, PerformTyped
<1>2. \A m \in 1 .. n : \A x \in FileOutcomes : F[m][x] = Perform(x, s[m])
    OBVIOUS
<1>3. Outcome(r, s) = A[n]
    BY DEF Outcome
<1> HIDE DEF F
<1>4. PICK f : Solves(f, n, FileOutcomes, r, F)
    BY <1>0, <1>1, Recursion
<1>5. f \in [0 .. n -> FileOutcomes] /\ f[0] = r /\ \A m \in 1 .. n : f[m] = F[m][f[m - 1]]
    BY <1>4 DEF Solves
<1>6. \A k \in 1 .. n : f[k] = Perform(f[k - 1], s[k])
    <2>1. \A k \in 1 .. n : f[k - 1] \in FileOutcomes
        BY <1>0, <1>5
    <2> QED
        BY <1>2, <1>5, <2>1
<1>7. f = Body(f)
    <2>1. \A k \in 0 .. n : f[k] = Body(f)[k]
        <3>1. \A k \in 0 .. n : k = 0 \/ k \in 1 .. n
            BY <1>0
        <3> QED
            BY <1>5, <1>6, <3>1
    <2>2. f = [k \in 0 .. n |-> f[k]]
        BY <1>5
    <2> QED
        BY <2>1, <2>2
<1>8. A = Body(A)
    BY <1>7
<1> HIDE DEF A
<1>9. DOMAIN A = 0 .. n /\ A[0] = r /\ \A k \in 1 .. n : A[k] = Perform(A[k - 1], s[k])
    <2>1. \A k \in 1 .. n : k \in 0 .. n /\ k # 0
        BY <1>0
    <2> QED
        BY <1>0, <1>8, <2>1
<1>10. Runs(f, r, s) /\ Runs(A, r, s) /\ Typed(f, s)
    BY <1>5, <1>6, <1>9 DEF Runs, Typed
<1>11. A[n] = f[n]
    <2>1. \A k \in 0 .. n : A[k] = f[k]
        BY <1>10, RunsOnce
    <2> QED
        BY <1>0, <2>1
<1> QED
    BY <1>3, <1>10, <1>11

\* Whatever runs the changes ends with their outcome.
LEMMA RunsTo ==
    ASSUME NEW r \in FileOutcomes, NEW s \in Seq(AnyChange), NEW b, Runs(b, r, s)
    PROVE  Outcome(r, s) = b[Len(s)] /\ Outcome(r, s) \in FileOutcomes
<1>0. Len(s) \in Nat /\ Len(s) \in 0 .. Len(s)
    OBVIOUS
<1>1. PICK a : Runs(a, r, s) /\ Typed(a, s) /\ Outcome(r, s) = a[Len(s)]
    BY OutcomeRuns
<1>2. b[Len(s)] = a[Len(s)]
    BY <1>0, <1>1, RunsOnce
<1>3. a[Len(s)] \in FileOutcomes
    BY <1>0, <1>1 DEF Typed
<1> QED
    BY <1>1, <1>2, <1>3

\* The outcome of no change, and of one more.
LEMMA OutcomeSteps ==
    ASSUME NEW r \in FileOutcomes
    PROVE  /\ Outcome(r, << >>) = r
           /\ \A s \in Seq(AnyChange) : Outcome(r, s) \in FileOutcomes
           /\ \A s \in Seq(AnyChange), c \in AnyChange : Outcome(r, Append(s, c)) = Perform(Outcome(r, s), c)
<1>1. Outcome(r, << >>) = r
    <2> DEFINE b == [k \in 0 .. 0 |-> r]
    <2>1. DOMAIN b = 0 .. Len(<< >>) /\ b[0] = r /\ \A k \in 1 .. Len(<< >>) : b[k] = Perform(b[k - 1], << >>[k])
        OBVIOUS
    <2>2. << >> \in Seq(AnyChange) /\ Len(<< >>) = 0
        OBVIOUS
    <2> HIDE DEF b
    <2>3. Runs(b, r, << >>)
        BY <2>1 DEF Runs
    <2> QED
        BY <2>1, <2>2, <2>3, RunsTo
<1>2. ASSUME NEW s \in Seq(AnyChange) PROVE Outcome(r, s) \in FileOutcomes
    <2>1. PICK a : Runs(a, r, s) /\ Typed(a, s) /\ Outcome(r, s) = a[Len(s)]
        BY OutcomeRuns
    <2>2. Len(s) \in 0 .. Len(s)
        OBVIOUS
    <2> QED
        BY <2>1, <2>2 DEF Typed
<1>3. ASSUME NEW s \in Seq(AnyChange), NEW c \in AnyChange
      PROVE  Outcome(r, Append(s, c)) = Perform(Outcome(r, s), c)
    <2> DEFINE n == Len(s)
               u == Append(s, c)
    <2>1. PICK a : Runs(a, r, s) /\ Typed(a, s) /\ Outcome(r, s) = a[n]
        BY OutcomeRuns
    <2>2. /\ u \in Seq(AnyChange) /\ Len(u) = n + 1 /\ n \in Nat
          /\ \A k \in 1 .. n : u[k] = s[k]
          /\ u[n + 1] = c
        OBVIOUS
    <2> HIDE DEF u, n
    <2> DEFINE b == [k \in 0 .. n + 1 |-> IF k = n + 1 THEN Perform(a[n], c) ELSE a[k]]
    <2>3. DOMAIN b = 0 .. Len(u) /\ b[0] = a[0] /\ b[n + 1] = Perform(a[n], c) /\ \A k \in 0 .. n : b[k] = a[k]
        BY <2>2
    <2>4. a[0] = r /\ \A k \in 1 .. n : a[k] = Perform(a[k - 1], s[k])
        BY <2>1 DEF Runs, n
    <2> HIDE DEF b
    <2>5. ASSUME NEW k \in 1 .. Len(u) PROVE b[k] = Perform(b[k - 1], u[k])
        <3>1. CASE k = n + 1
            <4>1. k - 1 = n /\ n \in 0 .. n
                BY <2>2, <3>1
            <4> QED
                BY <2>2, <2>3, <3>1, <4>1
        <3>2. CASE k # n + 1
            <4>1. k \in 1 .. n /\ k - 1 \in 0 .. n /\ k \in 0 .. n
                BY <2>2, <3>2
            <4> QED
                BY <2>2, <2>3, <2>4, <4>1
        <3> QED
            BY <3>1, <3>2
    <2>6. Runs(b, r, u)
        BY <2>3, <2>4, <2>5 DEF Runs
    <2>7. Outcome(r, u) = b[Len(u)]
        BY <2>2, <2>6, RunsTo
    <2> QED
        BY <2>1, <2>2, <2>3, <2>7 DEF u
<1> QED
    BY <1>1, <1>2, <1>3

\* The first n members of a sequence.
Initial(s, n) == SubSeq(s, 1, n)

\* They grow by one member at a time.
LEMMA Initials ==
    ASSUME NEW D, NEW s \in Seq(D)
    PROVE  /\ Initial(s, 0) = << >> /\ Initial(s, Len(s)) = s
           /\ \A n \in 0 .. Len(s) : /\ Initial(s, n) \in Seq(D) /\ Len(Initial(s, n)) = n
                                     /\ \A k \in 1 .. n : Initial(s, n)[k] = s[k]
           /\ \A n \in 0 .. Len(s) - 1 : Initial(s, n + 1) = Append(Initial(s, n), s[n + 1])
<1>0. Len(s) \in Nat /\ \A k \in 1 .. Len(s) : s[k] \in D
    OBVIOUS
<1>1. ASSUME NEW n \in 0 .. Len(s)
      PROVE  /\ Initial(s, n) \in Seq(D) /\ Len(Initial(s, n)) = n
             /\ \A k \in 1 .. n : Initial(s, n)[k] = s[k]
    <2>1. 1 <= n + 1 /\ n \in Int /\ \A i \in 1 .. n : s[i] \in D
        BY <1>0
    <2> DEFINE u == SubSeq(s, 1, n)
    <2>2. u \in Seq(D) /\ Len(u) = n - 1 + 1 /\ \A i \in 1 .. n - 1 + 1 : u[i] = s[1 + i - 1]
        BY <2>1, SubSeqProperties
    <2> HIDE DEF u
    <2>3. Len(u) = n /\ \A i \in 1 .. n : u[i] = s[i]
        BY <1>0, <2>2
    <2> QED
        BY <2>2, <2>3 DEF Initial, u
<1>2. Initial(s, 0) = << >>
    <2>1. Initial(s, 0) \in Seq(D) /\ Len(Initial(s, 0)) = 0
        BY <1>0, <1>1
    <2> QED
        BY <2>1, EmptySeq
<1>3. Initial(s, Len(s)) = s
    <2>1. /\ Initial(s, Len(s)) \in Seq(D) /\ Len(Initial(s, Len(s))) = Len(s)
          /\ \A k \in 1 .. Len(s) : Initial(s, Len(s))[k] = s[k]
        BY <1>0, <1>1
    <2> QED
        BY <2>1, SeqEqual
<1>4. ASSUME NEW n \in 0 .. Len(s) - 1
      PROVE  Initial(s, n + 1) = Append(Initial(s, n), s[n + 1])
    <2> DEFINE u == Initial(s, n + 1)
               v == Append(Initial(s, n), s[n + 1])
    <2>0. n \in 0 .. Len(s) /\ n + 1 \in 0 .. Len(s) /\ n + 1 \in 1 .. Len(s) /\ n \in Nat
        BY <1>0
    <2>1. u \in Seq(D) /\ Len(u) = n + 1 /\ \A k \in 1 .. n + 1 : u[k] = s[k]
        BY <1>1, <2>0
    <2>2. Initial(s, n) \in Seq(D) /\ Len(Initial(s, n)) = n /\ \A k \in 1 .. n : Initial(s, n)[k] = s[k]
        BY <1>1, <2>0
    <2>3. s[n + 1] \in D
        BY <1>0, <2>0
    <2>4. v \in Seq(D) /\ Len(v) = n + 1 /\ v[n + 1] = s[n + 1] /\ \A k \in 1 .. n : v[k] = Initial(s, n)[k]
        <3>1. v \in Seq(D) /\ Len(v) = Len(Initial(s, n)) + 1 /\ v[Len(Initial(s, n)) + 1] = s[n + 1]
              /\ \A k \in 1 .. Len(Initial(s, n)) : v[k] = Initial(s, n)[k]
            BY <2>2, <2>3, AppendProperties
        <3> QED
            BY <2>2, <3>1
    <2> HIDE DEF u, v
    <2>5. \A k \in 1 .. n + 1 : u[k] = v[k]
        <3>1. \A k \in 1 .. n + 1 : k = n + 1 \/ k \in 1 .. n
            BY <2>0
        <3> QED
            BY <2>1, <2>2, <2>4, <3>1
    <2>6. u = v
        BY <2>1, <2>4, <2>5, SeqEqual
    <2> QED
        BY <2>6 DEF u, v
<1> QED
    BY <1>1, <1>2, <1>3, <1>4

\* Joining a sequence that is one longer.
LEMMA JoinAppend ==
    ASSUME NEW D, NEW s \in Seq(D), NEW u \in Seq(D), NEW x \in D
    PROVE  s \o Append(u, x) = Append(s \o u, x) /\ Append(u, x) \in Seq(D) /\ s \o u \in Seq(D)
<1>1. <<x>> \in Seq(D)
    OBVIOUS
<1>2. \A v \in Seq(D) : Append(v, x) = v \o <<x>> /\ Append(v, x) \in Seq(D)
    OBVIOUS
<1>3. s \o u \in Seq(D)
    OBVIOUS
<1>4. s \o (u \o <<x>>) = (s \o u) \o <<x>>
    BY <1>1, ConcatAssociative
<1> QED
    BY <1>2, <1>3, <1>4

\* The outcome of two sequences is that of the second after the first.
LEMMA OutcomeJoins ==
    ASSUME NEW r \in FileOutcomes, NEW s \in Seq(AnyChange), NEW u \in Seq(AnyChange)
    PROVE  Outcome(r, s \o u) = Outcome(Outcome(r, s), u)
<1> DEFINE n == Len(u)
           v(k) == Initial(u, k)
           T == {k \in Nat : Outcome(r, s \o v(k)) = Outcome(Outcome(r, s), v(k))}
<1>0. n \in Nat /\ Outcome(r, s) \in FileOutcomes
    BY OutcomeSteps
<1>1. 0 \in T
    <2>1. v(0) = << >> /\ s \o << >> = s
        BY Initials, ConcatEmptySeq
    <2> QED
        BY <1>0, <2>1, OutcomeSteps
<1>2. ASSUME NEW k \in 0 .. n - 1, k \in T PROVE k + 1 \in T
    <2>1. k + 1 \in Nat /\ k \in 0 .. n /\ k + 1 \in 1 .. n
        BY <1>0
    <2>2. v(k) \in Seq(AnyChange) /\ v(k + 1) = Append(v(k), u[k + 1]) /\ u[k + 1] \in AnyChange
        BY <2>1, Initials
    <2> DEFINE w == v(k)
               c == u[k + 1]
    <2> HIDE DEF w, c, v
    <2>3. s \o Append(w, c) = Append(s \o w, c) /\ s \o w \in Seq(AnyChange)
        BY <2>2, JoinAppend DEF w, c
    <2>4. Outcome(r, s \o v(k)) = Outcome(Outcome(r, s), v(k))
        BY <1>2
    <2>5. Outcome(r, Append(s \o w, c)) = Outcome(Outcome(r, s), Append(w, c))
        <3> DEFINE x == Outcome(r, s)
        <3>1. x \in FileOutcomes /\ w \in Seq(AnyChange) /\ c \in AnyChange
            BY <1>0, <2>2 DEF w, c
        <3> HIDE DEF x
        <3>2. Outcome(x, Append(w, c)) = Perform(Outcome(x, w), c)
            BY <3>1, OutcomeSteps
        <3>3. Outcome(r, Append(s \o w, c)) = Perform(Outcome(r, s \o w), c)
            BY <2>3, <3>1, OutcomeSteps
        <3> QED
            BY <2>4, <3>2, <3>3 DEF w, x
    <2> QED
        BY <2>1, <2>2, <2>3, <2>5 DEF w, c
<1>3. T \in SUBSET Nat
    OBVIOUS
<1>4. n \in T
    <2> HIDE DEF T
    <2>1. \A k \in 0 .. n : k \in T
        BY <1>0, <1>1, <1>2, <1>3, UpTo
    <2> QED
        BY <1>0, <2>1
<1>5. v(n) = u
    BY Initials
<1> QED
    BY <1>4, <1>5

\* A change that shares no path with those that follow may come after them.
LEMMA Postpone ==
    ASSUME NEW r \in FileOutcomes, NEW s \in Seq(AnyChange), NEW c \in AnyChange,
           \A k \in 1 .. Len(s) : Disjoint(c, s[k])
    PROVE  Outcome(Perform(r, c), s) = Perform(Outcome(r, s), c)
<1> DEFINE n == Len(s)
<1>0. n \in Nat /\ \A k \in 1 .. n : s[k] \in AnyChange
    OBVIOUS
<1>1. PICK a : Runs(a, r, s) /\ Typed(a, s) /\ Outcome(r, s) = a[n]
    BY OutcomeRuns
<1>2. a \in [0 .. n -> FileOutcomes] /\ a[0] = r /\ \A k \in 1 .. n : a[k] = Perform(a[k - 1], s[k])
    BY <1>1 DEF Runs, Typed
<1> DEFINE b == [k \in 0 .. n |-> Perform(a[k], c)]
<1>3. DOMAIN b = 0 .. n /\ b[0] = Perform(r, c)
    BY <1>0, <1>2
<1>4. ASSUME NEW k \in 1 .. n PROVE b[k] = Perform(b[k - 1], s[k])
    <2>1. k - 1 \in 0 .. n /\ k \in 0 .. n
        BY <1>0
    <2>2. a[k - 1] \in FileOutcomes /\ a[k] = Perform(a[k - 1], s[k])
        BY <1>2, <2>1
    <2>3. Perform(Perform(a[k - 1], c), s[k]) = Perform(Perform(a[k - 1], s[k]), c)
        BY <1>0, <2>2, Commute
    <2> QED
        BY <2>1, <2>2, <2>3
<1>5. b[n] = Perform(a[n], c)
    BY <1>0
<1> HIDE DEF b
<1>6. Runs(b, Perform(r, c), s)
    BY <1>3, <1>4 DEF Runs
<1>7. Outcome(Perform(r, c), s) = b[n]
    BY <1>6, PerformTyped, RunsTo
<1> QED
    BY <1>1, <1>5, <1>7

\* a holds what the prefixes of s have of the kinds of K.
KindsKept(a, s, K) ==
    /\ DOMAIN a = 0 .. Len(s) /\ a[0] = << >>
    /\ \A k \in 1 .. Len(s) : a[k] = IF s[k].kind \in K THEN Append(a[k - 1], s[k]) ELSE a[k - 1]

\* There is one way to keep them.
LEMMA KeptOnce ==
    ASSUME NEW K, NEW s \in Seq(AnyChange), NEW a, NEW b, KindsKept(a, s, K), KindsKept(b, s, K)
    PROVE  \A k \in 0 .. Len(s) : b[k] = a[k]
<1> DEFINE T == {k \in Nat : b[k] = a[k]}
<1>0. Len(s) \in Nat
    OBVIOUS
<1>1. 0 \in T
    BY DEF KindsKept
<1>2. ASSUME NEW k \in 0 .. Len(s) - 1, k \in T PROVE k + 1 \in T
    <2>1. k + 1 \in 1 .. Len(s) /\ (k + 1) - 1 = k /\ k + 1 \in Nat
        BY <1>0
    <2>2. /\ a[k + 1] = IF s[k + 1].kind \in K THEN Append(a[k], s[k + 1]) ELSE a[k]
          /\ b[k + 1] = IF s[k + 1].kind \in K THEN Append(b[k], s[k + 1]) ELSE b[k]
        BY <2>1 DEF KindsKept
    <2> QED
        BY <1>2, <2>1, <2>2
<1>3. T \in SUBSET Nat
    OBVIOUS
<1>4. \A k \in 0 .. Len(s) : k \in T
    <2> HIDE DEF T
    <2> QED
        BY <1>0, <1>1, <1>2, <1>3, UpTo
<1> QED
    BY <1>4

\* OfKinds keeps them.
LEMMA KindsKeep ==
    ASSUME NEW K, NEW s \in Seq(AnyChange)
    PROVE  \E a : /\ KindsKept(a, s, K) /\ a \in [0 .. Len(s) -> Seq(AnyChange)]
                  /\ OfKinds(s, K) = a[Len(s)]
<1> DEFINE n == Len(s)
           S == Seq(AnyChange)
           F == [m \in 1 .. n |-> [x \in S |-> IF s[m].kind \in K THEN Append(x, s[m]) ELSE x]]
           Body(f) == [k \in 0 .. n |->
                         IF k = 0 THEN << >>
                         ELSE IF s[k].kind \in K THEN Append(f[k - 1], s[k]) ELSE f[k - 1]]
           A == CHOOSE f : f = Body(f)
<1>0. n \in Nat /\ \A k \in 1 .. n : s[k] \in AnyChange
    OBVIOUS
<1>1. F \in [1 .. n -> [S -> S]]
    <2>1. \A x \in S, c \in AnyChange : Append(x, c) \in S
        OBVIOUS
    <2> HIDE DEF S
    <2> QED
        BY <1>0, <2>1
<1>2. \A m \in 1 .. n : \A x \in S : F[m][x] = IF s[m].kind \in K THEN Append(x, s[m]) ELSE x
    OBVIOUS
<1>3. OfKinds(s, K) = A[n]
    BY DEF OfKinds
<1>14. << >> \in S
    OBVIOUS
<1> HIDE DEF F, S
<1>4. PICK f : Solves(f, n, S, << >>, F)
    BY <1>0, <1>1, <1>14, Recursion
<1>5. f \in [0 .. n -> S] /\ f[0] = << >> /\ \A m \in 1 .. n : f[m] = F[m][f[m - 1]]
    BY <1>4 DEF Solves
<1>6. \A k \in 1 .. n : f[k] = IF s[k].kind \in K THEN Append(f[k - 1], s[k]) ELSE f[k - 1]
    <2>1. \A k \in 1 .. n : f[k - 1] \in S
        BY <1>0, <1>5
    <2> QED
        BY <1>2, <1>5, <2>1
<1>7. f = Body(f)
    <2>1. \A k \in 0 .. n : f[k] = Body(f)[k]
        <3>1. \A k \in 0 .. n : k = 0 \/ k \in 1 .. n
            BY <1>0
        <3> QED
            BY <1>5, <1>6, <3>1
    <2>2. f = [k \in 0 .. n |-> f[k]]
        BY <1>5
    <2> QED
        BY <2>1, <2>2
<1>8. A = Body(A)
    <2>1. \E g : g = Body(g)
        BY <1>7
    <2> HIDE DEF Body
    <2> QED
        BY <2>1
<1> HIDE DEF A
<1>9. /\ DOMAIN A = 0 .. n /\ A[0] = << >>
      /\ \A k \in 1 .. n : A[k] = IF s[k].kind \in K THEN Append(A[k - 1], s[k]) ELSE A[k - 1]
    <2>1. \A k \in 1 .. n : k \in 0 .. n /\ k # 0
        BY <1>0
    <2>2. /\ DOMAIN Body(A) = 0 .. n /\ Body(A)[0] = << >>
          /\ \A k \in 1 .. n : Body(A)[k] = IF s[k].kind \in K THEN Append(A[k - 1], s[k]) ELSE A[k - 1]
        BY <1>0, <2>1
    <2> HIDE DEF Body
    <2> QED
        BY <1>8, <2>2
<1>10. KindsKept(f, s, K) /\ KindsKept(A, s, K)
    BY <1>5, <1>6, <1>9 DEF KindsKept
<1>11. A[n] = f[n]
    <2>1. \A k \in 0 .. n : A[k] = f[k]
        BY <1>10, KeptOnce
    <2> QED
        BY <1>0, <2>1
<1> QED
    BY <1>3, <1>5, <1>10, <1>11 DEF S

\* What OfKinds keeps of no change, and of one more.
LEMMA KindsStep ==
    ASSUME NEW K
    PROVE  /\ OfKinds(<< >>, K) = << >>
           /\ \A s \in Seq(AnyChange) : OfKinds(s, K) \in Seq(AnyChange)
           /\ \A s \in Seq(AnyChange), c \in AnyChange :
                OfKinds(Append(s, c), K) = IF c.kind \in K THEN Append(OfKinds(s, K), c) ELSE OfKinds(s, K)
<1>1. OfKinds(<< >>, K) = << >>
    <2>1. << >> \in Seq(AnyChange) /\ Len(<< >>) = 0
        OBVIOUS
    <2>2. PICK a : KindsKept(a, << >>, K) /\ OfKinds(<< >>, K) = a[Len(<< >>)]
        BY <2>1, KindsKeep
    <2> QED
        BY <2>1, <2>2 DEF KindsKept
<1>2. ASSUME NEW s \in Seq(AnyChange) PROVE OfKinds(s, K) \in Seq(AnyChange)
    <2>1. PICK a : a \in [0 .. Len(s) -> Seq(AnyChange)] /\ OfKinds(s, K) = a[Len(s)]
        BY KindsKeep
    <2>2. Len(s) \in 0 .. Len(s)
        OBVIOUS
    <2> QED
        BY <2>1, <2>2
<1>3. ASSUME NEW s \in Seq(AnyChange), NEW c \in AnyChange
      PROVE  OfKinds(Append(s, c), K) = IF c.kind \in K THEN Append(OfKinds(s, K), c) ELSE OfKinds(s, K)
    <2> DEFINE n == Len(s)
               u == Append(s, c)
    <2>1. PICK a : KindsKept(a, s, K) /\ OfKinds(s, K) = a[n]
        BY KindsKeep
    <2>2. /\ u \in Seq(AnyChange) /\ Len(u) = n + 1 /\ n \in Nat
          /\ \A k \in 1 .. n : u[k] = s[k]
          /\ u[n + 1] = c
        OBVIOUS
    <2> HIDE DEF u, n
    <2>3. PICK b : KindsKept(b, u, K) /\ OfKinds(u, K) = b[n + 1]
        <3>1. \E b : KindsKept(b, u, K) /\ OfKinds(u, K) = b[Len(u)]
            BY <2>2, KindsKeep
        <3> QED
            BY <2>2, <3>1
    <2> DEFINE d == [k \in 0 .. n |-> b[k]]
    <2>4. KindsKept(d, s, K)
        <3>1. DOMAIN d = 0 .. n /\ \A k \in 0 .. n : d[k] = b[k]
            OBVIOUS
        <3> HIDE DEF d
        <3>2. ASSUME NEW k \in 1 .. n
              PROVE  d[k] = IF s[k].kind \in K THEN Append(d[k - 1], s[k]) ELSE d[k - 1]
            <4>1. k \in 0 .. n /\ k - 1 \in 0 .. n /\ k \in 1 .. n + 1 /\ u[k] = s[k]
                BY <2>2
            <4>2. b[k] = IF u[k].kind \in K THEN Append(b[k - 1], u[k]) ELSE b[k - 1]
                BY <2>2, <2>3, <4>1 DEF KindsKept
            <4> QED
                BY <3>1, <4>1, <4>2
        <3>3. d[0] = << >>
            BY <2>2, <2>3, <3>1 DEF KindsKept
        <3> QED
            BY <3>1, <3>2, <3>3 DEF KindsKept, n
    <2>5. a[n] = b[n]
        <3>1. \A k \in 0 .. Len(s) : d[k] = a[k]
            <4> HIDE DEF d
            <4> QED
                BY <2>1, <2>4, KeptOnce
        <3>2. n \in 0 .. n
            BY <2>2
        <3> QED
            BY <3>1, <3>2 DEF n
    <2>6. b[n + 1] = IF u[n + 1].kind \in K THEN Append(b[n], u[n + 1]) ELSE b[n]
        <3>1. n + 1 \in 1 .. n + 1 /\ (n + 1) - 1 = n
            BY <2>2
        <3> QED
            BY <2>2, <2>3, <3>1 DEF KindsKept
    <2> QED
        BY <2>1, <2>2, <2>3, <2>5, <2>6 DEF u
<1> QED
    BY <1>1, <1>2, <1>3

\* The members of a sequence.
Members(s) == {s[k] : k \in 1 .. Len(s)}

\* Those of no change, of one more, and of two sequences.
LEMMA MembersMean ==
    ASSUME NEW D
    PROVE  /\ Members(<< >>) = {}
           /\ \A s \in Seq(D), c \in D : Members(Append(s, c)) = Members(s) \cup {c}
           /\ \A s, u \in Seq(D) : Members(s \o u) = Members(s) \cup Members(u)
<1>1. ASSUME NEW s \in Seq(D), NEW c \in D PROVE Members(Append(s, c)) = Members(s) \cup {c}
    <2> DEFINE u == Append(s, c)
               n == Len(s)
    <2>1. /\ Len(u) = n + 1 /\ n \in Nat /\ u[n + 1] = c
          /\ \A k \in 1 .. n : u[k] = s[k]
        OBVIOUS
    <2>2. \A k \in 1 .. n + 1 : k \in 1 .. n \/ k = n + 1
        BY <2>1
    <2>3. n + 1 \in 1 .. n + 1 /\ \A k \in 1 .. n : k \in 1 .. n + 1
        BY <2>1
    <2> HIDE DEF u, n
    <2>4. \A x : x \in Members(u) <=> x \in Members(s) \/ x = c
        BY <2>1, <2>2, <2>3 DEF Members, n
    <2> QED
        BY <2>4 DEF u
<1>2. ASSUME NEW s \in Seq(D), NEW u \in Seq(D) PROVE Members(s \o u) = Members(s) \cup Members(u)
    <2> DEFINE v == s \o u
               n == Len(s)
               m == Len(u)
    <2>1. /\ Len(v) = n + m /\ n \in Nat /\ m \in Nat
          /\ \A k \in 1 .. n : v[k] = s[k]
          /\ \A k \in n + 1 .. n + m : v[k] = u[k - n]
        OBVIOUS
    <2>2. \A k \in 1 .. n + m : k \in 1 .. n \/ (k \in n + 1 .. n + m /\ k - n \in 1 .. m)
        BY <2>1
    <2>3. /\ \A k \in 1 .. n : k \in 1 .. n + m
          /\ \A k \in 1 .. m : n + k \in n + 1 .. n + m /\ (n + k) - n = k /\ n + k \in 1 .. n + m
        BY <2>1
    <2> HIDE DEF v, n, m
    <2>4. \A x \in Members(v) : x \in Members(s) \cup Members(u)
        BY <2>1, <2>2 DEF Members, n, m
    <2>5. \A x \in Members(s) : x \in Members(v)
        BY <2>1, <2>3 DEF Members, n
    <2>6. \A x \in Members(u) : x \in Members(v)
        <3>1. ASSUME NEW k \in 1 .. m PROVE u[k] \in Members(v)
            <4>1. v[n + k] = u[k] /\ n + k \in 1 .. Len(v)
                BY <2>1, <2>3
            <4> QED
                BY <4>1 DEF Members
        <3> QED
            BY <3>1 DEF Members, m
    <2> QED
        BY <2>4, <2>5, <2>6 DEF v
<1>3. Members(<< >>) = {}
    BY DEF Members
<1> QED
    BY <1>1, <1>2, <1>3

\* What is kept are the members of the kinds.
LEMMA KindsMembers ==
    ASSUME NEW K, NEW s \in Seq(AnyChange)
    PROVE  Members(OfKinds(s, K)) = {c \in Members(s) : c.kind \in K}
<1> DEFINE n == Len(s)
           v(k) == Initial(s, k)
           Good(w) == Members(OfKinds(w, K)) = {c \in Members(w) : c.kind \in K}
           T == {k \in Nat : Good(v(k))}
<1>0. n \in Nat
    OBVIOUS
<1>1. 0 \in T
    <2>1. v(0) = << >>
        BY Initials
    <2>2. Good(<< >>)
        BY KindsStep, MembersMean
    <2> QED
        BY <2>1, <2>2
<1>2. ASSUME NEW k \in 0 .. n - 1, k \in T PROVE k + 1 \in T
    <2>1. k + 1 \in Nat /\ k \in 0 .. n /\ k + 1 \in 1 .. n
        BY <1>0
    <2>2. v(k) \in Seq(AnyChange) /\ v(k + 1) = Append(v(k), s[k + 1]) /\ s[k + 1] \in AnyChange
        BY <2>1, Initials
    <2> DEFINE w == v(k)
               c == s[k + 1]
    <2>3. Good(w)
        BY <1>2
    <2> HIDE DEF w, c
    <2>4. w \in Seq(AnyChange) /\ c \in AnyChange /\ OfKinds(w, K) \in Seq(AnyChange)
        BY <2>2, KindsStep DEF w, c
    <2>5. OfKinds(Append(w, c), K) = IF c.kind \in K THEN Append(OfKinds(w, K), c) ELSE OfKinds(w, K)
        BY <2>4, KindsStep
    <2>6. /\ Members(Append(w, c)) = Members(w) \cup {c}
          /\ Members(Append(OfKinds(w, K), c)) = Members(OfKinds(w, K)) \cup {c}
        BY <2>4, MembersMean
    <2>7. Good(Append(w, c))
        BY <2>3, <2>5, <2>6
    <2> QED
        BY <2>1, <2>2, <2>7 DEF w, c
<1>3. T \in SUBSET Nat
    OBVIOUS
<1>4. n \in T
    <2> HIDE DEF T
    <2>1. \A k \in 0 .. n : k \in T
        BY <1>0, <1>1, <1>2, <1>3, UpTo
    <2> QED
        BY <1>0, <2>1
<1>5. v(n) = s
    BY Initials
<1> QED
    BY <1>4, <1>5

\* Keeping some kinds of what was kept.
LEMMA KindsTwice ==
    ASSUME NEW K, NEW L, NEW s \in Seq(AnyChange)
    PROVE  OfKinds(OfKinds(s, K), L) = OfKinds(s, K \cap L)
<1> DEFINE n == Len(s)
           v(k) == Initial(s, k)
           Good(w) == OfKinds(OfKinds(w, K), L) = OfKinds(w, K \cap L)
           T == {k \in Nat : Good(v(k))}
<1>0. n \in Nat
    OBVIOUS
<1>1. 0 \in T
    <2>1. v(0) = << >>
        BY Initials
    <2>2. Good(<< >>)
        BY KindsStep
    <2> QED
        BY <2>1, <2>2
<1>2. ASSUME NEW k \in 0 .. n - 1, k \in T PROVE k + 1 \in T
    <2>1. k + 1 \in Nat /\ k \in 0 .. n /\ k + 1 \in 1 .. n
        BY <1>0
    <2>2. v(k) \in Seq(AnyChange) /\ v(k + 1) = Append(v(k), s[k + 1]) /\ s[k + 1] \in AnyChange
        BY <2>1, Initials
    <2> DEFINE w == v(k)
               c == s[k + 1]
    <2>3. Good(w)
        BY <1>2
    <2> HIDE DEF w, c
    <2>4. w \in Seq(AnyChange) /\ c \in AnyChange /\ OfKinds(w, K) \in Seq(AnyChange)
        BY <2>2, KindsStep DEF w, c
    <2>5. /\ OfKinds(Append(w, c), K) = IF c.kind \in K THEN Append(OfKinds(w, K), c) ELSE OfKinds(w, K)
          /\ OfKinds(Append(w, c), K \cap L) =
               IF c.kind \in K \cap L THEN Append(OfKinds(w, K \cap L), c) ELSE OfKinds(w, K \cap L)
          /\ OfKinds(Append(OfKinds(w, K), c), L) =
               IF c.kind \in L THEN Append(OfKinds(OfKinds(w, K), L), c) ELSE OfKinds(OfKinds(w, K), L)
        BY <2>4, KindsStep
    <2>6. Good(Append(w, c))
        <3>1. CASE c.kind \in K
            <4>1. OfKinds(Append(w, c), K) = Append(OfKinds(w, K), c)
                BY <2>5, <3>1
            <4>2. c.kind \in K \cap L <=> c.kind \in L
                BY <3>1
            <4>3. CASE c.kind \in L
                BY <2>3, <2>5, <4>1, <4>2, <4>3, Zenon
            <4>4. CASE c.kind \notin L
                BY <2>3, <2>5, <4>1, <4>2, <4>4, Zenon
            <4> QED
                BY <4>3, <4>4
        <3>2. CASE c.kind \notin K
            BY <2>3, <2>5, <3>2
        <3> QED
            BY <3>1, <3>2
    <2> QED
        BY <2>1, <2>2, <2>6 DEF w, c
<1>3. T \in SUBSET Nat
    OBVIOUS
<1>4. n \in T
    <2> HIDE DEF T
    <2>1. \A k \in 0 .. n : k \in T
        BY <1>0, <1>1, <1>2, <1>3, UpTo
    <2> QED
        BY <1>0, <2>1
<1>5. v(n) = s
    BY Initials
<1> QED
    BY <1>4, <1>5

\* c shares no path with the members of s.
Apart(c, s) == \A d \in Members(s) : Disjoint(c, d)
\* The changes in the order of the phases.
ByPhase(r, s) ==
    Outcome(Outcome(Outcome(Outcome(r, OfKind(s, "create")), OfKind(s, "edit")), OfKind(s, "rename")),
            OfKind(s, "delete"))

\* A change that shares no path with those that follow may come after them.
LEMMA PostponeApart ==
    ASSUME NEW r \in FileOutcomes, NEW s \in Seq(AnyChange), NEW c \in AnyChange, Apart(c, s)
    PROVE  /\ Outcome(Perform(r, c), s) = Perform(Outcome(r, s), c)
           /\ Outcome(r, s) \in FileOutcomes /\ Perform(r, c) \in FileOutcomes
<1>1. \A k \in 1 .. Len(s) : Disjoint(c, s[k])
    BY DEF Apart, Members
<1>2. Outcome(Perform(r, c), s) = Perform(Outcome(r, s), c)
    BY <1>1, Postpone
<1> QED
    BY <1>2, OutcomeSteps, PerformTyped

\* No member of s that belongs to a later phase than c shares a path with it.
NotAhead(s, c) == \A d \in Members(s) : Rank[c.kind] < Rank[d.kind] => Disjoint(c, d)

\* One more change in the order of the phases.
LEMMA ByPhaseStep ==
    ASSUME NEW r \in FileOutcomes, NEW s \in Seq(AnyChange), NEW c \in AnyChange, NotAhead(s, c)
    PROVE  ByPhase(r, Append(s, c)) = Perform(ByPhase(r, s), c)
<1> DEFINE C == OfKind(s, "create")
           E == OfKind(s, "edit")
           R == OfKind(s, "rename")
           D == OfKind(s, "delete")
           rc == Outcome(r, C)
           re == Outcome(rc, E)
           rr == Outcome(re, R)
           rd == Outcome(rr, D)
           u == Append(s, c)
<1>0. c.kind \in Kinds
    BY DEF AnyChange
<1>1. C \in Seq(AnyChange) /\ E \in Seq(AnyChange) /\ R \in Seq(AnyChange) /\ D \in Seq(AnyChange)
    BY KindsStep DEF OfKind
<1>2. /\ OfKind(u, "create") = IF c.kind = "create" THEN Append(C, c) ELSE C
      /\ OfKind(u, "edit") = IF c.kind = "edit" THEN Append(E, c) ELSE E
      /\ OfKind(u, "rename") = IF c.kind = "rename" THEN Append(R, c) ELSE R
      /\ OfKind(u, "delete") = IF c.kind = "delete" THEN Append(D, c) ELSE D
    BY KindsStep DEF OfKind
<1>3. /\ \A d \in Members(E) : d \in Members(s) /\ d.kind = "edit"
      /\ \A d \in Members(R) : d \in Members(s) /\ d.kind = "rename"
      /\ \A d \in Members(D) : d \in Members(s) /\ d.kind = "delete"
    BY KindsMembers DEF OfKind
<1>4. Rank["create"] = 1 /\ Rank["edit"] = 2 /\ Rank["rename"] = 3 /\ Rank["delete"] = 4
    BY DEF Rank
<1>5. /\ c.kind = "create" => Apart(c, E) /\ Apart(c, R) /\ Apart(c, D)
      /\ c.kind = "edit" => Apart(c, R) /\ Apart(c, D)
      /\ c.kind = "rename" => Apart(c, D)
    <2> HIDE DEF C, E, R, D
    <2> QED
        BY <1>3, <1>4 DEF NotAhead, Apart
<1>6. ByPhase(r, s) = rd
    BY DEF ByPhase
<1>7. ByPhase(r, u) =
        Outcome(Outcome(Outcome(Outcome(r, OfKind(u, "create")), OfKind(u, "edit")), OfKind(u, "rename")),
                OfKind(u, "delete"))
    BY DEF ByPhase
<1> HIDE DEF C, E, R, D, u
<1>8. rc \in FileOutcomes /\ re \in FileOutcomes /\ rr \in FileOutcomes /\ rd \in FileOutcomes
    <2>1. rc \in FileOutcomes
        BY <1>1, OutcomeSteps
    <2> HIDE DEF rc
    <2>2. re \in FileOutcomes
        BY <1>1, <2>1, OutcomeSteps
    <2> HIDE DEF re
    <2>3. rr \in FileOutcomes
        BY <1>1, <2>2, OutcomeSteps
    <2> HIDE DEF rr
    <2> QED
        BY <1>1, <2>1, <2>2, <2>3, OutcomeSteps
<1> DEFINE pc == Perform(rc, c)
           pe == Perform(re, c)
           pr == Perform(rr, c)
           pd == Perform(rd, c)
<1>9. pc \in FileOutcomes /\ pe \in FileOutcomes /\ pr \in FileOutcomes
    BY <1>8, PerformTyped
<1>10. /\ Outcome(r, Append(C, c)) = pc
       /\ Apart(c, E) => Outcome(pc, E) = pe
       /\ Outcome(rc, Append(E, c)) = pe
       /\ Apart(c, R) => Outcome(pe, R) = pr
       /\ Outcome(re, Append(R, c)) = pr
       /\ Apart(c, D) => Outcome(pr, D) = pd
       /\ Outcome(rr, Append(D, c)) = pd
    <2>1. /\ Outcome(r, Append(C, c)) = pc
          /\ Apart(c, E) => Outcome(pc, E) = pe
        <3>1. Outcome(r, Append(C, c)) = pc
            BY <1>1, OutcomeSteps
        <3> HIDE DEF rc
        <3> QED
            BY <1>1, <1>8, <3>1, PostponeApart
    <2> HIDE DEF rc
    <2>2. /\ Outcome(rc, Append(E, c)) = pe
          /\ Apart(c, R) => Outcome(pe, R) = pr
        <3>1. Outcome(rc, Append(E, c)) = pe
            BY <1>1, <1>8, OutcomeSteps
        <3> HIDE DEF re
        <3> QED
            BY <1>1, <1>8, <3>1, PostponeApart
    <2> HIDE DEF re
    <2>3. /\ Outcome(re, Append(R, c)) = pr
          /\ Apart(c, D) => Outcome(pr, D) = pd
        <3>1. Outcome(re, Append(R, c)) = pr
            BY <1>1, <1>8, OutcomeSteps
        <3> HIDE DEF rr
        <3> QED
            BY <1>1, <1>8, <3>1, PostponeApart
    <2> HIDE DEF rr
    <2>4. Outcome(rr, Append(D, c)) = pd
        BY <1>1, <1>8, OutcomeSteps
    <2> QED
        BY <2>1, <2>2, <2>3, <2>4
<1>11. Outcome(r, C) = rc /\ Outcome(rc, E) = re /\ Outcome(re, R) = rr /\ Outcome(rr, D) = rd
    OBVIOUS
<1> HIDE DEF rc, re, rr, rd, pc, pe, pr, pd
<1>12. ByPhase(r, u) = pd
    <2>1. CASE c.kind = "create"
        <3>1. OfKind(u, "create") = Append(C, c) /\ OfKind(u, "edit") = E
              /\ OfKind(u, "rename") = R /\ OfKind(u, "delete") = D
            BY <1>2, <2>1
        <3> QED
            BY <1>5, <1>7, <1>10, <2>1, <3>1
    <2>2. CASE c.kind = "edit"
        <3>1. OfKind(u, "create") = C /\ OfKind(u, "edit") = Append(E, c)
              /\ OfKind(u, "rename") = R /\ OfKind(u, "delete") = D
            BY <1>2, <2>2
        <3> QED
            BY <1>5, <1>7, <1>10, <1>11, <2>2, <3>1
    <2>3. CASE c.kind = "rename"
        <3>1. OfKind(u, "create") = C /\ OfKind(u, "edit") = E
              /\ OfKind(u, "rename") = Append(R, c) /\ OfKind(u, "delete") = D
            BY <1>2, <2>3
        <3> QED
            BY <1>5, <1>7, <1>10, <1>11, <2>3, <3>1
    <2>4. CASE c.kind = "delete"
        <3>1. OfKind(u, "create") = C /\ OfKind(u, "edit") = E
              /\ OfKind(u, "rename") = R /\ OfKind(u, "delete") = Append(D, c)
            BY <1>2, <2>4
        <3> QED
            BY <1>7, <1>10, <1>11, <3>1
    <2> QED
        BY <1>0, <2>1, <2>2, <2>3, <2>4 DEF Kinds
<1> QED
    BY <1>6, <1>12 DEF pd, u

\* The fixed order of the phases makes the same of the files as the server's
\* own, when no change looks back at a path that a later phase works on.
LEMMA Reordered ==
    ASSUME NEW r \in FileOutcomes, NEW s \in Seq(AnyChange), InPhase(s)
    PROVE  ByPhase(r, s) = Outcome(r, s)
<1> DEFINE n == Len(s)
           v(k) == Initial(s, k)
           Good(w) == ByPhase(r, w) = Outcome(r, w)
           T == {k \in Nat : Good(v(k))}
<1>0. n \in Nat
    OBVIOUS
<1>1. 0 \in T
    <2>1. v(0) = << >>
        BY Initials
    <2>2. OfKind(<< >>, "create") = << >> /\ OfKind(<< >>, "edit") = << >>
          /\ OfKind(<< >>, "rename") = << >> /\ OfKind(<< >>, "delete") = << >>
        BY KindsStep DEF OfKind
    <2>3. Outcome(r, << >>) = r
        BY OutcomeSteps
    <2>4. Good(<< >>)
        BY <2>2, <2>3 DEF ByPhase
    <2> QED
        BY <2>1, <2>4
<1>2. ASSUME NEW k \in 0 .. n - 1, k \in T PROVE k + 1 \in T
    <2>1. k + 1 \in Nat /\ k \in 0 .. n /\ k + 1 \in 1 .. n
        BY <1>0
    <2>2. /\ v(k) \in Seq(AnyChange) /\ v(k + 1) = Append(v(k), s[k + 1]) /\ s[k + 1] \in AnyChange
          /\ Len(v(k)) = k /\ \A i \in 1 .. k : v(k)[i] = s[i]
        BY <2>1, Initials
    <2> DEFINE w == v(k)
               c == s[k + 1]
    <2>3. Good(w)
        BY <1>2
    <2>4. NotAhead(w, c)
        <3> HIDE DEF w
        <3>1. ASSUME NEW i \in 1 .. k, Rank[c.kind] < Rank[s[i].kind] PROVE Disjoint(c, s[i])
            <4>1. /\ i \in DOMAIN s /\ k + 1 \in DOMAIN s /\ i < k + 1
                  /\ c.kind \in Kinds /\ s[i].kind \in Kinds
                <5>1. s[i] \in AnyChange /\ c \in AnyChange /\ i \in 1 .. n
                    BY <2>1, <2>2
                <5> QED
                    BY <2>1, <5>1 DEF AnyChange
            <4>2. Rank[c.kind] \in Nat /\ Rank[s[i].kind] \in Nat
                BY <4>1 DEF Rank, Kinds
            <4>3. {s[i].path, s[i].to} \cap {s[k + 1].path, s[k + 1].to} = {}
                BY <3>1, <4>1, <4>2 DEF InPhase
            <4> QED
                BY <4>3 DEF Disjoint, Touched
        <3>2. Len(w) = k /\ \A i \in 1 .. k : w[i] = s[i]
            BY <2>2 DEF w
        <3> HIDE DEF c
        <3> QED
            BY <3>1, <3>2 DEF NotAhead, Members
    <2> HIDE DEF w, c
    <2>5. w \in Seq(AnyChange) /\ c \in AnyChange
        BY <2>2 DEF w, c
    <2>6. ByPhase(r, Append(w, c)) = Perform(ByPhase(r, w), c)
        BY <2>4, <2>5, ByPhaseStep
    <2>7. Outcome(r, Append(w, c)) = Perform(Outcome(r, w), c)
        BY <2>5, OutcomeSteps
    <2>8. Good(Append(w, c))
        BY <2>3, <2>6, <2>7
    <2> QED
        BY <2>1, <2>2, <2>8 DEF w, c
<1>3. T \in SUBSET Nat
    OBVIOUS
<1>4. n \in T
    <2> HIDE DEF T
    <2>1. \A k \in 0 .. n : k \in T
        BY <1>0, <1>1, <1>2, <1>3, UpTo
    <2> QED
        BY <1>0, <2>1
<1>5. v(n) = s
    BY Initials
<1> QED
    BY <1>4, <1>5

\* A sequence of edits, no two of one file.
EditsApart(s) ==
    /\ \A i \in 1 .. Len(s) : s[i].kind = "edit"
    /\ \A i, j \in 1 .. Len(s) : s[i].path = s[j].path => i = j
\* Every edit of E has its position in the file as it is in f.
AllFit(f, E) == \A e \in E : e.path \in DOMAIN f /\ Fits(f[e.path], e)
\* g is f with the edits of E made.
Made(f, E, g) ==
    /\ g = [p \in DOMAIN f |-> g[p]]
    /\ \A p \in DOMAIN f : /\ \A e \in E : e.path = p => g[p] = Inserted(f[p], e)
                           /\ (\A e \in E : e.path # p) => g[p] = f[p]

\* Nothing comes of a failure.
LEMMA FailureStays ==
    ASSUME NEW s \in Seq(AnyChange)
    PROVE  Outcome(Failed, s) = Failed
<1> DEFINE n == Len(s)
           b == [k \in 0 .. n |-> Failed]
<1>0. n \in Nat /\ \A k \in 1 .. n : s[k] \in AnyChange
    OBVIOUS
<1>1. Failed \in FileOutcomes
    BY DEF FileOutcomes
<1>2. DOMAIN b = 0 .. n /\ \A k \in 0 .. n : b[k] = Failed
    OBVIOUS
<1> HIDE DEF b
<1>3. Runs(b, Failed, s)
    <2>1. 0 \in 0 .. n /\ \A k \in 1 .. n : k \in 0 .. n /\ k - 1 \in 0 .. n
        BY <1>0
    <2>2. \A k \in 1 .. n : Failed = Perform(Failed, s[k])
        BY <1>0, <1>1, PerformTyped
    <2> QED
        BY <1>2, <2>1, <2>2 DEF Runs
<1>4. Outcome(Failed, s) = b[n]
    BY <1>1, <1>3, RunsTo
<1> QED
    BY <1>0, <1>2, <1>4

\* What edits of different files make of them.
MakeOf(f, s) ==
    IF AllFit(f, Members(s)) THEN \E g : Outcome(Files(f), s) = Files(g) /\ Made(f, Members(s), g)
    ELSE Outcome(Files(f), s) = Failed

\* One more edit, of another file.
LEMMA MakeOneMore ==
    ASSUME NEW f \in Trees, NEW s \in Seq(AnyChange), NEW c \in AnyChange, MakeOf(f, s), c.kind = "edit",
           \A e \in Members(s) : e.path # c.path
    PROVE  MakeOf(f, Append(s, c))
<1> DEFINE E == Members(s)
           r == Outcome(Files(f), s)
<1>0. Files(f) \in FileOutcomes
    BY DEF FileOutcomes
<1>1. Members(Append(s, c)) = E \cup {c}
    BY MembersMean
<1>2. Outcome(Files(f), Append(s, c)) = Perform(r, c)
    BY <1>0, OutcomeSteps
<1> HIDE DEF r, E
<1>3. CASE ~AllFit(f, E)
    <2>1. ~AllFit(f, E \cup {c})
        BY <1>3 DEF AllFit
    <2>2. r = Failed
        BY <1>3 DEF MakeOf, r, E
    <2> QED
        BY <1>1, <1>2, <2>1, <2>2, PerformTyped DEF MakeOf, FileOutcomes
<1>4. CASE AllFit(f, E)
    <2>1. PICK g : r = Files(g) /\ Made(f, E, g)
        BY <1>4 DEF MakeOf, r, E
    <2>2. DOMAIN g = DOMAIN f /\ (c.path \in DOMAIN f => g[c.path] = f[c.path])
        BY <2>1 DEF Made, E
    <2>3. Feasible(g, c) <=> c.path \in DOMAIN f /\ Fits(f[c.path], c)
        BY <2>2 DEF Feasible
    <2>4. AllFit(f, E \cup {c}) <=> Feasible(g, c)
        BY <1>4, <2>3 DEF AllFit
    <2>5. Perform(r, c) = IF Feasible(g, c) THEN Files(MadeBy(g, c)) ELSE Failed
        BY <2>1, PerformMeans
    <2>6. ASSUME Feasible(g, c) PROVE Made(f, E \cup {c}, MadeBy(g, c))
        <3> DEFINE h == MadeBy(g, c)
        <3>1. c.path \in DOMAIN f
            BY <2>3, <2>6
        <3>2. h = Put(g, c.path, Inserted(f[c.path], c))
            BY <2>2, <3>1 DEF MadeBy
        <3>3. /\ DOMAIN h = DOMAIN f /\ h = [p \in DOMAIN f |-> h[p]]
              /\ h[c.path] = Inserted(f[c.path], c)
              /\ \A p \in DOMAIN f : p # c.path => h[p] = g[p]
            <4>1. DOMAIN g \cup {c.path} = DOMAIN f
                BY <2>2, <3>1
            <4> QED
                BY <3>1, <3>2, <4>1 DEF Put
        <3> HIDE DEF h
        <3>4. ASSUME NEW p \in DOMAIN f
              PROVE  /\ \A e \in E \cup {c} : e.path = p => h[p] = Inserted(f[p], e)
                     /\ (\A e \in E \cup {c} : e.path # p) => h[p] = f[p]
            <4>1. CASE p = c.path
                <5>1. \A e \in E : e.path # p
                    BY <4>1 DEF E
                <5> QED
                    BY <3>3, <4>1, <5>1
            <4>2. CASE p # c.path
                BY <2>1, <3>3, <4>2 DEF Made
            <4> QED
                BY <4>1, <4>2
        <3>5. Made(f, E \cup {c}, h)
            BY <3>3, <3>4 DEF Made
        <3> QED
            BY <3>5 DEF h
    <2> QED
        BY <1>1, <1>2, <2>4, <2>5, <2>6 DEF MakeOf
<1> QED
    BY <1>3, <1>4

\* Edits of different files make each of its own file, or fail.
LEMMA EditsMake ==
    ASSUME NEW f \in Trees, NEW s \in Seq(AnyChange), EditsApart(s)
    PROVE  MakeOf(f, s)
<1> DEFINE n == Len(s)
           v(k) == Initial(s, k)
           T == {k \in Nat : MakeOf(f, v(k))}
<1>0. n \in Nat
    OBVIOUS
<1>1. 0 \in T
    <2>1. v(0) = << >>
        BY Initials
    <2>2. Files(f) \in FileOutcomes
        BY DEF FileOutcomes
    <2>3. Outcome(Files(f), << >>) = Files(f) /\ Members(<< >>) = {}
        BY <2>2, OutcomeSteps, MembersMean
    <2>4. Made(f, {}, f)
        BY TreeMeans DEF Made
    <2>5. AllFit(f, {})
        BY DEF AllFit
    <2>6. MakeOf(f, << >>)
        BY <2>3, <2>4, <2>5 DEF MakeOf
    <2> QED
        BY <2>1, <2>6
<1>2. ASSUME NEW k \in 0 .. n - 1, k \in T PROVE k + 1 \in T
    <2>1. k + 1 \in Nat /\ k \in 0 .. n /\ k + 1 \in 1 .. n
        BY <1>0
    <2>2. /\ v(k) \in Seq(AnyChange) /\ v(k + 1) = Append(v(k), s[k + 1]) /\ s[k + 1] \in AnyChange
          /\ Len(v(k)) = k /\ \A i \in 1 .. k : v(k)[i] = s[i]
        BY <2>1, Initials
    <2> DEFINE w == v(k)
               c == s[k + 1]
    <2>3. MakeOf(f, w)
        BY <1>2
    <2>4. \A e \in Members(w) : e.path # c.path
        <3> HIDE DEF w
        <3>1. ASSUME NEW i \in 1 .. k PROVE s[i].path # c.path
            <4>1. i \in 1 .. Len(s) /\ i # k + 1
                BY <2>1
            <4> QED
                BY <2>1, <4>1 DEF EditsApart
        <3>2. Len(w) = k /\ \A i \in 1 .. k : w[i] = s[i]
            BY <2>2 DEF w
        <3> HIDE DEF c
        <3> QED
            BY <3>1, <3>2 DEF Members
    <2>5. c.kind = "edit"
        BY <2>1 DEF EditsApart
    <2> HIDE DEF w, c
    <2>6. w \in Seq(AnyChange) /\ c \in AnyChange
        BY <2>2 DEF w, c
    <2>7. MakeOf(f, Append(w, c))
        BY <2>3, <2>4, <2>5, <2>6, MakeOneMore
    <2> QED
        BY <2>1, <2>2, <2>7 DEF w, c
<1>3. T \in SUBSET Nat
    OBVIOUS
<1>4. n \in T
    <2> HIDE DEF T
    <2>1. \A k \in 0 .. n : k \in T
        BY <1>0, <1>1, <1>2, <1>3, UpTo
    <2> QED
        BY <1>0, <2>1
<1>5. v(n) = s
    BY Initials
<1> QED
    BY <1>4, <1>5

\* The order of edits of different files makes no difference.
LEMMA EditsAnyOrder ==
    ASSUME NEW r \in FileOutcomes, NEW s \in Seq(AnyChange), NEW u \in Seq(AnyChange),
           EditsApart(s), EditsApart(u), Members(s) = Members(u)
    PROVE  Outcome(r, s) = Outcome(r, u)
<1>1. CASE r = Failed
    BY <1>1, FailureStays
<1>2. ASSUME NEW f \in Trees, r = Files(f) PROVE Outcome(r, s) = Outcome(r, u)
    <2>1. MakeOf(f, s) /\ MakeOf(f, u)
        BY EditsMake
    <2>2. CASE AllFit(f, Members(s))
        <3>1. PICK g : Outcome(r, s) = Files(g) /\ Made(f, Members(s), g)
            BY <1>2, <2>1, <2>2 DEF MakeOf
        <3>2. PICK h : Outcome(r, u) = Files(h) /\ Made(f, Members(s), h)
            BY <1>2, <2>1, <2>2 DEF MakeOf
        <3>3. \A p \in DOMAIN f : g[p] = h[p]
            BY <3>1, <3>2 DEF Made
        <3>4. g = h
            BY <3>1, <3>2, <3>3 DEF Made
        <3> QED
            BY <3>1, <3>2, <3>4
    <2>3. CASE ~AllFit(f, Members(s))
        BY <1>2, <2>1, <2>3 DEF MakeOf
    <2> QED
        BY <2>2, <2>3
<1> QED
    BY <1>1, <1>2, PerformTyped DEF FileOutcomes

\* No two changes have one path.
PathsApart(s) == \A i, j \in 1 .. Len(s) : s[i].path = s[j].path => i = j

\* A batch is refused for a file that is edited twice, and for nothing else.
LEMMA PathsCount ==
    ASSUME NEW s \in Seq(AnyChange)
    PROVE  /\ Cardinality(PathsOf(s)) = Len(s) <=> PathsApart(s)
           /\ Cardinality(PathsOf(s)) # Len(s) => Cardinality(PathsOf(s)) < Len(s)
<1> DEFINE n == Len(s)
           S == 1 .. n
           P == PathsOf(s)
           f == [i \in S |-> s[i].path]
<1>0. n \in Nat /\ DOMAIN s = S
    OBVIOUS
<1>1. IsFiniteSet(S) /\ Cardinality(S) = n
    BY <1>0, Upwards
<1>2. P = {s[i].path : i \in S}
    BY <1>0 DEF PathsOf
<1>3. f \in Surjection(S, P)
    <2>1. f \in [S -> P]
        BY <1>2
    <2>2. \A p \in P : \E i \in S : f[i] = p
        BY <1>2
    <2> HIDE DEF f, P, S
    <2> QED
        BY <2>1, <2>2 DEF Surjection
<1>4. (f \in Injection(S, P)) <=> PathsApart(s)
    <2>1. (f \in Injection(S, P)) <=> \A i, j \in S : f[i] = f[j] => i = j
        <3>1. f \in [S -> P]
            BY <1>2
        <3>2. DOMAIN f = S
            OBVIOUS
        <3> HIDE DEF f, P, S
        <3> QED
            BY <3>1, <3>2 DEF Injection, IsInjective
    <2> QED
        BY <2>1 DEF PathsApart
<1> HIDE DEF S, P, f
<1>5. IsFiniteSet(P) /\ Cardinality(P) <= n /\ (Cardinality(P) = n <=> f \in Injection(S, P))
    BY <1>1, <1>3, FS_Surjection
<1>6. Cardinality(P) \in Nat
    BY <1>5, FS_CardinalityType
<1> QED
    BY <1>0, <1>4, <1>5, <1>6 DEF P, n

\* The order of the paths, and of the array among edits of one file.
PathLessIn(s) ==
    {ij \in (1 .. Len(s)) \X (1 .. Len(s)) : PathLess(Indexed(s)[ij[1]], Indexed(s)[ij[2]])}

\* It orders the edits.
LEMMA PathOrders ==
    ASSUME NEW s \in Seq(AnyChange)
    PROVE  Orders(PathLessIn(s), 1 .. Len(s))
<1> DEFINE S == 1 .. Len(s)
           x == Indexed(s)
<1>0. Len(s) \in Nat /\ DOMAIN s = S /\ \A i \in S : s[i] \in AnyChange
    OBVIOUS
<1>1. \A i \in S : x[i].edit = s[i] /\ x[i].orig = i /\ i \in Int
    BY <1>0 DEF Indexed
<1>2. \A i \in S : PathRank[x[i].edit.path] \in Nat
    BY <1>0, <1>1, PathRankAssumption DEF AnyChange, Paths
<1>3. \A i, h \in S : <<i, h>> \in PathLessIn(s) <=> PathLess(x[i], x[h])
    BY DEF PathLessIn
<1> HIDE DEF x
<1>4. \A i \in S : <<i, i>> \notin PathLessIn(s)
    <2>1. ASSUME NEW i \in S PROVE ~PathLess(x[i], x[i])
        BY <1>1, <1>2 DEF PathLess
    <2> QED
        BY <1>3, <2>1
<1>5. \A i, h \in S : i # h => <<i, h>> \in PathLessIn(s) \/ <<h, i>> \in PathLessIn(s)
    BY <1>1, <1>2, <1>3 DEF PathLess
<1>6. ASSUME NEW i \in S, NEW h \in S, NEW k \in S, PathLess(x[i], x[h]), PathLess(x[h], x[k])
      PROVE  PathLess(x[i], x[k])
    BY <1>1, <1>2, <1>6 DEF PathLess
<1> QED
    BY <1>3, <1>4, <1>5, <1>6 DEF Orders

\* The sorted edits are the edits, each once.
LEMMA SortMeans ==
    ASSUME NEW s \in Seq(AnyChange)
    PROVE  \E p : /\ Lists(p, PathLessIn(s), Len(s))
                  /\ SortByPath(s) = [m \in 1 .. Len(s) |-> s[p[m]]]
<1> DEFINE n == Len(s)
           S == 1 .. n
           x == Indexed(s)
           R == PathLessIn(s)
           rank(i) == Cardinality({h \in S : PathLess(x[h], x[i])})
           p == [m \in S |-> CHOOSE i \in S : rank(i) = m - 1]
           z == SortedBy(x, PathLess)
<1>0. n \in Nat /\ DOMAIN x = S /\ \A i \in S : x[i].edit = s[i]
    BY DEF Indexed
<1>1. z = [m \in S |-> x[CHOOSE i \in S : rank(i) = m - 1]]
    BY <1>0 DEF SortedBy
<1>11. SortByPath(s) = [m \in DOMAIN z |-> z[m].edit]
    BY DEF SortByPath
<1> HIDE DEF z
<1>2. Orders(R, S)
    BY PathOrders
<1>3. \A i \in S : rank(i) = Cardinality(Below(R, S, i))
    <2>1. ASSUME NEW i \in S
          PROVE  {h \in S : PathLess(x[h], x[i])} = Below(R, S, i)
        BY DEF Below, PathLessIn
    <2> QED
        BY <2>1
<1>4. \A m \in S : \E i \in S : Cardinality(Below(R, S, i)) = m - 1
    <2>1. \A m \in 0 .. n - 1 : \E i \in S : Cardinality(Below(R, S, i)) = m
        <3>1. IsFiniteSet(S) /\ Cardinality(S) = n
            BY <1>0, Upwards
        <3> HIDE DEF S, R
        <3> QED
            BY <1>2, <3>1, Ranks
    <2>2. \A m \in S : m - 1 \in 0 .. n - 1
        BY <1>0
    <2> QED
        BY <2>1, <2>2
<1> HIDE DEF n, x, R, rank
<1>5. ASSUME NEW m \in S
      PROVE  LET i == CHOOSE i \in S : rank(i) = m - 1 IN i \in S /\ rank(i) = m - 1
    <2>1. \E i \in S : rank(i) = m - 1
        BY <1>3, <1>4
    <2> QED
        BY <2>1
<1>6. p \in [S -> S] /\ \A m \in S : p[m] \in S /\ rank(p[m]) = m - 1
    BY <1>5
<1>7. z = [m \in S |-> x[p[m]]]
    BY <1>1
<1> HIDE DEF p
<1>8. \A m \in S : Cardinality(Below(R, S, p[m])) = m - 1
    BY <1>3, <1>6
<1>9. Lists(p, R, n)
    BY <1>0, <1>2, <1>6, <1>8, RanksList
<1>10. SortByPath(s) = [m \in S |-> s[p[m]]]
    <2>1. DOMAIN z = S /\ \A m \in S : z[m].edit = s[p[m]]
        BY <1>0, <1>6, <1>7
    <2> QED
        BY <1>11, <2>1
<1> QED
    BY <1>9, <1>10 DEF n, R

\* Sorting loses no edit and doubles none.
LEMMA SortKeeps ==
    ASSUME NEW s \in Seq(AnyChange)
    PROVE  /\ SortByPath(s) \in Seq(AnyChange) /\ Len(SortByPath(s)) = Len(s)
           /\ Members(SortByPath(s)) = Members(s)
           /\ PathsOf(SortByPath(s)) = PathsOf(s)
<1> DEFINE n == Len(s)
           u == SortByPath(s)
<1>0. n \in Nat /\ DOMAIN s = 1 .. n /\ \A i \in 1 .. n : s[i] \in AnyChange
    OBVIOUS
<1>1. PICK p : Lists(p, PathLessIn(s), n) /\ u = [m \in 1 .. n |-> s[p[m]]]
    BY SortMeans
<1>2. /\ p \in [1 .. n -> 1 .. n]
      /\ \A i \in 1 .. n : \E m \in 1 .. n : p[m] = i
    BY <1>1 DEF Lists
<1>3. /\ u \in Seq(AnyChange) /\ Len(u) = n /\ DOMAIN u = 1 .. n
      /\ \A m \in 1 .. n : u[m] = s[p[m]]
    <2>1. u \in [1 .. n -> AnyChange] /\ \A m \in 1 .. n : u[m] = s[p[m]]
        BY <1>0, <1>1, <1>2
    <2> HIDE DEF u
    <2> QED
        BY <1>0, <2>1
<1> HIDE DEF n, u
<1>4. Members(u) = Members(s)
    <2>1. \A m \in 1 .. n : u[m] \in Members(s)
        BY <1>2, <1>3 DEF Members, n
    <2>2. ASSUME NEW i \in 1 .. n PROVE s[i] \in Members(u)
        <3>1. PICK m \in 1 .. n : p[m] = i
            BY <1>2
        <3>2. u[m] = s[i]
            BY <1>3, <3>1
        <3> QED
            BY <1>3, <3>2 DEF Members
    <2> QED
        BY <1>3, <2>1, <2>2 DEF Members, n
<1>5. PathsOf(u) = {c.path : c \in Members(u)} /\ PathsOf(s) = {c.path : c \in Members(s)}
    BY <1>0, <1>3 DEF PathsOf, Members, n
<1> QED
    BY <1>3, <1>4, <1>5 DEF n, u

\* The edits of an answer, sorted or not.
LEMMA SortedEdits ==
    ASSUME NEW s \in Seq(AnyChange), PathsApart(OfKind(s, "edit"))
    PROVE  /\ EditsApart(OfKind(s, "edit")) /\ OfKind(s, "edit") \in Seq(AnyChange)
           /\ EditsApart(SortByPath(OfKind(s, "edit")))
<1> DEFINE E == OfKind(s, "edit")
           z == SortByPath(E)
<1>1. E \in Seq(AnyChange) /\ \A e \in Members(E) : e \in Members(s) /\ e.kind = "edit"
    <2>1. Members(E) = {c \in Members(s) : c.kind \in {"edit"}}
        BY KindsMembers DEF OfKind
    <2>2. E \in Seq(AnyChange)
        BY KindsStep DEF OfKind
    <2> HIDE DEF E
    <2> QED
        BY <2>1, <2>2
<1> HIDE DEF E
<1>2. z \in Seq(AnyChange) /\ Len(z) = Len(E) /\ Members(z) = Members(E) /\ PathsOf(z) = PathsOf(E)
    BY <1>1, SortKeeps
<1> HIDE DEF z
<1>3. PathsApart(E)
    BY DEF E
<1>4. PathsApart(z)
    BY <1>1, <1>2, <1>3, PathsCount
<1>5. EditsApart(E) /\ EditsApart(z)
    BY <1>1, <1>2, <1>3, <1>4 DEF EditsApart, PathsApart, Members
<1> QED
    BY <1>1, <1>5 DEF E, z

\* The operations of an answer are its changes that are no edits.
LEMMA OpsOfKind ==
    ASSUME NEW s \in Seq(AnyChange), NEW kind \in Kinds \ {"edit"}
    PROVE  OfKind(OfKinds(s, Kinds \ {"edit"}), kind) = OfKind(s, kind)
<1>1. (Kinds \ {"edit"}) \cap {kind} = {kind}
    OBVIOUS
<1> DEFINE K == Kinds \ {"edit"}
           L == {kind}
<1>2. OfKinds(OfKinds(s, K), L) = OfKinds(s, K \cap L)
    <2> HIDE DEF K, L
    <2> QED
        BY KindsTwice
<1> QED
    BY <1>1, <1>2 DEF OfKind

\* Four sequences are run one after the other.
LEMMA OutcomeOfFour ==
    ASSUME NEW r \in FileOutcomes, NEW s \in Seq(AnyChange), NEW u \in Seq(AnyChange), NEW v \in Seq(AnyChange),
           NEW w \in Seq(AnyChange)
    PROVE  Outcome(r, s \o u \o v \o w) = Outcome(Outcome(Outcome(Outcome(r, s), u), v), w)
<1>1. s \o u \in Seq(AnyChange) /\ (s \o u) \o v \in Seq(AnyChange)
    OBVIOUS
<1>2. Outcome(r, s \o u) = Outcome(Outcome(r, s), u)
    BY OutcomeJoins
<1>3. Outcome(r, (s \o u) \o v) = Outcome(Outcome(r, s \o u), v)
    BY <1>1, OutcomeJoins
<1>4. Outcome(r, ((s \o u) \o v) \o w) = Outcome(Outcome(r, (s \o u) \o v), w)
    BY <1>1, OutcomeJoins
<1> QED
    BY <1>2, <1>3, <1>4

\* The phases of what is read from an answer.
LEMMA PhasesMean ==
    ASSUME NEW r \in FileOutcomes, NEW s \in Seq(AnyChange), PathsApart(OfKind(s, "edit"))
    PROVE  Outcome(r, Phases(WorkspaceEdit(SortByPath(OfKind(s, "edit")), OfKinds(s, Kinds \ {"edit"}))))
             = ByPhase(r, s)
<1> DEFINE E == OfKind(s, "edit")
           z == SortByPath(E)
           O == OfKinds(s, Kinds \ {"edit"})
           we == WorkspaceEdit(z, O)
           C == OfKind(s, "create")
           R == OfKind(s, "rename")
           D == OfKind(s, "delete")
           x == Outcome(r, C)
<1>1. "create" \in Kinds \ {"edit"} /\ "rename" \in Kinds \ {"edit"} /\ "delete" \in Kinds \ {"edit"}
    BY DEF Kinds
<1>2. OfKind(O, "create") = C /\ OfKind(O, "rename") = R /\ OfKind(O, "delete") = D
    BY <1>1, OpsOfKind
<1>3. C \in Seq(AnyChange) /\ R \in Seq(AnyChange) /\ D \in Seq(AnyChange)
    BY KindsStep DEF OfKind
<1>4. EditsApart(E) /\ EditsApart(z) /\ E \in Seq(AnyChange)
    BY SortedEdits
<1>5. z \in Seq(AnyChange) /\ Members(z) = Members(E)
    BY <1>4, SortKeeps
<1>6. we.edits = z /\ we.ops = O
    BY DEF WorkspaceEdit
<1>7. ByPhase(r, s) = Outcome(Outcome(Outcome(x, E), R), D)
    BY DEF ByPhase
<1> HIDE DEF E, z, O, we, C, R, D
<1>8. Phases(we) = C \o z \o R \o D
    BY <1>2, <1>6 DEF Phases
<1>9. Outcome(r, Phases(we)) = Outcome(Outcome(Outcome(x, z), R), D)
    BY <1>3, <1>5, <1>8, OutcomeOfFour
<1>10. x \in FileOutcomes
    BY <1>3, OutcomeSteps
<1> HIDE DEF x
<1>11. Outcome(x, z) = Outcome(x, E)
    BY <1>4, <1>5, <1>10, EditsAnyOrder
<1> QED
    BY <1>7, <1>9, <1>11 DEF we, z, O, E

\* An edit of a file that the answer does not create meets it as it is on disk.
LEMMA MeetsTheDisk ==
    ASSUME NEW disk \in Trees, NEW s \in Seq(AnyChange), InPhase(s), PathsApart(OfKind(s, "edit")),
           NEW e \in Members(OfKind(s, "edit")), e.path \notin CreateTargets(s),
           Outcome(Files(disk), s).ok
    PROVE  Converts(disk, e)
<1> DEFINE E == OfKind(s, "edit")
           R == OfKind(s, "rename")
           D == OfKind(s, "delete")
           C == OfKind(s, "create")
           r == Files(disk)
           x == Outcome(r, C)
           y == Outcome(x, E)
<1>0. r \in FileOutcomes /\ ~Failed.ok
    BY DEF FileOutcomes, Failed
<1>1. E \in Seq(AnyChange) /\ C \in Seq(AnyChange) /\ R \in Seq(AnyChange) /\ D \in Seq(AnyChange)
    BY KindsStep DEF OfKind
<1>2. e \in Members(s) /\ e.kind = "edit" /\ e \in AnyChange
    <2>1. e \in Members(s) /\ e.kind = "edit"
        BY KindsMembers DEF OfKind
    <2> QED
        BY <2>1 DEF Members
<1>3. \A c \in Members(C) : c.kind = "create" /\ c \in AnyChange /\ c.path \in CreateTargets(s)
    <2>1. \A c \in Members(C) : c.kind = "create"
        BY KindsMembers DEF OfKind
    <2>2. CreateTargets(s) = {C[i].path : i \in 1 .. Len(C)}
        BY <1>1 DEF CreateTargets, PathsOf
    <2>3. \A c \in Members(C) : c \in AnyChange
        BY <1>1 DEF Members
    <2> HIDE DEF C
    <2>4. \A c \in Members(C) : c.path \in CreateTargets(s)
        BY <2>2 DEF Members
    <2> QED
        BY <2>1, <2>3, <2>4
<1>4. Outcome(r, s) = Outcome(Outcome(y, R), D)
    BY <1>0, Reordered DEF ByPhase
<1>5. EditsApart(E)
    BY SortedEdits
<1>12. e \in Members(E)
    OBVIOUS
<1> HIDE DEF E, R, D, C
<1>6. Apart(e, C)
    <2>1. ASSUME NEW c \in Members(C) PROVE Disjoint(e, c)
        <3>1. c.kind = "create" /\ e.kind = "edit" /\ c.path # e.path
            BY <1>2, <1>3
        <3> QED
            BY <3>1 DEF Disjoint, Touched
    <2> QED
        BY <2>1 DEF Apart
<1>7. x \in FileOutcomes
    BY <1>0, <1>1, OutcomeSteps
<1>8. Outcome(Perform(r, e), C) = Perform(x, e) /\ Perform(r, e) \in FileOutcomes
    BY <1>0, <1>1, <1>2, <1>6, PostponeApart
<1> HIDE DEF x
<1>9. y # Failed
    BY <1>0, <1>1, <1>4, FailureStays DEF r
<1>10. PICK g \in Trees : x = Files(g)
    <2>1. x # Failed
        BY <1>1, <1>9, FailureStays
    <2> QED
        BY <1>7, <2>1 DEF FileOutcomes
<1>11. AllFit(g, Members(E))
    <2>1. MakeOf(g, E)
        BY <1>1, <1>5, EditsMake
    <2> QED
        BY <1>9, <1>10, <2>1 DEF MakeOf
<1>13. Feasible(g, e)
    BY <1>2, <1>11, <1>12 DEF AllFit, Feasible
<1>14. Perform(x, e) # Failed
    <2>1. Perform(Files(g), e) = Files(MadeBy(g, e))
        BY <1>2, <1>13, PerformMeans
    <2>2. \A f : Files(f) # Failed
        BY DEF Files, Failed
    <2> QED
        BY <1>10, <2>1, <2>2
<1>15. Perform(r, e) # Failed
    BY <1>1, <1>8, <1>14, FailureStays
<1>16. Feasible(disk, e)
    BY <1>2, <1>15, PerformMeans
<1> QED
    BY <1>2, <1>16 DEF Feasible, Converts

\* What the fixed order makes of a batch.
BatchRight(disk, changes, result) ==
    LET meant == InOrder(disk, changes)
        edits == OfKind(changes, "edit")
    IN /\ result.ok => result = meant
       /\ (~result.ok /\ meant.ok) =>
             \/ Cardinality(PathsOf(edits)) < Len(edits)
             \/ \E i \in DOMAIN edits : ~edits[i].start /\ edits[i].path \in CreateTargets(changes)

\* The fixed order gives what the server meant, or the batch is refused for one
\* of the reasons.
LEMMA BatchIsRight ==
    ASSUME NEW disk \in Trees, NEW s \in Seq(AnyChange), InPhase(s)
    PROVE  BatchRight(disk, s, ApplyBatch(disk, ParseChanges(disk, s)))
<1> DEFINE r == Files(disk)
           E == OfKind(s, "edit")
           z == SortByPath(E)
           Converted(e) == IF e.path \in CreateTargets(s) THEN ConvertsForNewFile(e) ELSE Converts(disk, e)
           we == ParseChanges(disk, s)
           read == WorkspaceEdit(z, OfKinds(s, Kinds \ {"edit"}))
           result == ApplyBatch(disk, we)
           meant == InOrder(disk, s)
<1>0. r \in FileOutcomes /\ ~Failed.ok
    BY DEF FileOutcomes, Failed
<1>1. E \in Seq(AnyChange)
    BY KindsStep DEF OfKind
<1>2. meant = Outcome(r, s) /\ meant = ByPhase(r, s)
    BY <1>0, Reordered DEF InOrder
<1>3. we = IF \E i \in DOMAIN E : ~Converted(E[i]) THEN NoEdit ELSE read
    BY DEF ParseChanges
<1>4. read.error = FALSE /\ read.edits = z /\ NoEdit.error = TRUE
    BY DEF WorkspaceEdit, NoEdit
<1>5. Len(z) = Len(E) /\ PathsOf(z) = PathsOf(E)
    BY <1>1, SortKeeps
<1>6. PathsApart(E) => Outcome(r, Phases(read)) = meant
    BY <1>0, <1>2, PhasesMean
<1>7. result = IF we.error \/ Cardinality(PathsOf(we.edits)) # Len(we.edits) THEN Failed
               ELSE Outcome(r, Phases(we))
    BY DEF ApplyBatch
<1> HIDE DEF E, z, we, read, result, meant, r, Converted
<1>8. /\ Cardinality(PathsOf(E)) = Len(E) <=> PathsApart(E)
      /\ Cardinality(PathsOf(E)) # Len(E) => Cardinality(PathsOf(E)) < Len(E)
    BY <1>1, PathsCount
<1>9. result.ok => result = meant
    BY <1>0, <1>3, <1>4, <1>5, <1>6, <1>7, <1>8
<1>10. ASSUME ~result.ok, meant.ok
       PROVE  \/ Cardinality(PathsOf(E)) < Len(E)
              \/ \E i \in DOMAIN E : ~E[i].start /\ E[i].path \in CreateTargets(s)
    <2> SUFFICES ASSUME PathsApart(E)
                 PROVE  \E i \in DOMAIN E : ~E[i].start /\ E[i].path \in CreateTargets(s)
        BY <1>8
    <2>1. we # read
        <3> SUFFICES ASSUME we = read PROVE FALSE
            OBVIOUS
        <3>1. result = Outcome(r, Phases(read))
            BY <1>4, <1>5, <1>7, <1>8
        <3> QED
            BY <1>6, <1>10, <3>1
    <2>2. PICK i \in DOMAIN E : ~Converted(E[i])
        BY <1>3, <2>1
    <2>3. E[i] \in Members(E) /\ i \in 1 .. Len(E)
        BY <1>1 DEF Members
    <2>4. E[i].path \in CreateTargets(s)
        <3> SUFFICES ASSUME E[i].path \notin CreateTargets(s) PROVE FALSE
            OBVIOUS
        <3>1. Outcome(Files(disk), s).ok
            BY <1>2, <1>10 DEF r
        <3>2. Converts(disk, E[i])
            BY <2>3, <3>1, MeetsTheDisk DEF E
        <3> QED
            BY <2>2, <3>2 DEF Converted
    <2>5. ~E[i].start
        BY <2>2, <2>4 DEF Converted, ConvertsForNewFile, Fits
    <2> QED
        BY <2>4, <2>5
<1>11. BatchRight(disk, s, result)
    BY <1>9, <1>10 DEF BatchRight, E, meant
<1> QED
    BY <1>11 DEF result, we

\* What is kept of two sequences.
LEMMA KindsJoin ==
    ASSUME NEW K, NEW s \in Seq(AnyChange), NEW u \in Seq(AnyChange)
    PROVE  OfKinds(s \o u, K) = OfKinds(s, K) \o OfKinds(u, K)
<1> DEFINE n == Len(u)
           v(k) == Initial(u, k)
           Good(w) == OfKinds(s \o w, K) = OfKinds(s, K) \o OfKinds(w, K)
           T == {k \in Nat : Good(v(k))}
<1>0. n \in Nat /\ OfKinds(s, K) \in Seq(AnyChange)
    <2>1. OfKinds(s, K) \in Seq(AnyChange)
        BY KindsStep
    <2> QED
        BY <2>1
<1>1. 0 \in T
    <2>1. v(0) = << >>
        BY Initials
    <2>2. OfKinds(<< >>, K) = << >> /\ s \o << >> = s
        BY KindsStep, JoinMeans
    <2>3. OfKinds(s, K) \o << >> = OfKinds(s, K)
        BY <1>0, JoinMeans
    <2>4. Good(<< >>)
        BY <2>2, <2>3
    <2> QED
        BY <2>1, <2>4
<1>2. ASSUME NEW k \in 0 .. n - 1, k \in T PROVE k + 1 \in T
    <2>1. k + 1 \in Nat /\ k \in 0 .. n /\ k + 1 \in 1 .. n
        BY <1>0
    <2>2. v(k) \in Seq(AnyChange) /\ v(k + 1) = Append(v(k), u[k + 1]) /\ u[k + 1] \in AnyChange
        BY <2>1, Initials
    <2> DEFINE w == v(k)
               c == u[k + 1]
               x == OfKinds(s, K)
               y == OfKinds(w, K)
    <2>3. Good(w)
        BY <1>2
    <2> HIDE DEF w, c
    <2>4. w \in Seq(AnyChange) /\ c \in AnyChange /\ x \in Seq(AnyChange) /\ y \in Seq(AnyChange)
          /\ s \o w \in Seq(AnyChange)
        <3>1. w \in Seq(AnyChange) /\ c \in AnyChange
            BY <2>2 DEF w, c
        <3>2. OfKinds(w, K) \in Seq(AnyChange)
            BY <3>1, KindsStep
        <3>3. s \o w \in Seq(AnyChange)
            BY <3>1, JoinMeans
        <3> QED
            BY <1>0, <3>1, <3>2, <3>3
    <2>5. s \o Append(w, c) = Append(s \o w, c)
        BY <2>4, JoinAppend
    <2>6. /\ OfKinds(Append(w, c), K) = IF c.kind \in K THEN Append(y, c) ELSE y
          /\ OfKinds(Append(s \o w, c), K) =
               IF c.kind \in K THEN Append(OfKinds(s \o w, K), c) ELSE OfKinds(s \o w, K)
        BY <2>4, KindsStep
    <2>7. OfKinds(s \o w, K) = x \o y
        BY <2>3
    <2> HIDE DEF x, y
    <2>8. x \o Append(y, c) = Append(x \o y, c)
        BY <2>4, JoinAppend
    <2>9. OfKinds(s \o Append(w, c), K) = x \o OfKinds(Append(w, c), K)
        <3>1. CASE c.kind \in K
            <4>1. OfKinds(Append(w, c), K) = Append(y, c)
                BY <2>6, <3>1
            <4>2. OfKinds(Append(s \o w, c), K) = Append(x \o y, c)
                BY <2>6, <2>7, <3>1
            <4> QED
                BY <2>5, <2>8, <4>1, <4>2
        <3>2. CASE c.kind \notin K
            <4>1. OfKinds(Append(w, c), K) = y
                BY <2>6, <3>2
            <4>2. OfKinds(Append(s \o w, c), K) = x \o y
                BY <2>6, <2>7, <3>2
            <4> QED
                BY <2>5, <4>1, <4>2
        <3> QED
            BY <3>1, <3>2
    <2> QED
        BY <2>1, <2>2, <2>9 DEF w, c, x
<1>3. T \in SUBSET Nat
    OBVIOUS
<1>4. n \in T
    <2> HIDE DEF T
    <2>1. \A k \in 0 .. n : k \in T
        BY <1>0, <1>1, <1>2, <1>3, UpTo
    <2> QED
        BY <1>0, <2>1
<1>5. v(n) = u
    BY Initials
<1> QED
    BY <1>4, <1>5

\* All is kept of a sequence that has only the kinds, and nothing without them.
LEMMA KindsWhole ==
    ASSUME NEW K, NEW s \in Seq(AnyChange)
    PROVE  /\ (\A c \in Members(s) : c.kind \in K) => OfKinds(s, K) = s
           /\ (\A c \in Members(s) : c.kind \notin K) => OfKinds(s, K) = << >>
<1>1. ASSUME \A c \in Members(s) : c.kind \in K PROVE OfKinds(s, K) = s
    <2> DEFINE n == Len(s)
               v(k) == Initial(s, k)
               T == {k \in Nat : OfKinds(v(k), K) = v(k)}
    <2>0. n \in Nat
        OBVIOUS
    <2>1. 0 \in T
        <3>1. v(0) = << >>
            BY Initials
        <3> QED
            BY <3>1, KindsStep
    <2>2. ASSUME NEW k \in 0 .. n - 1, k \in T PROVE k + 1 \in T
        <3>1. k + 1 \in Nat /\ k + 1 \in 1 .. n /\ k \in 0 .. n
            BY <2>0
        <3>2. v(k) \in Seq(AnyChange) /\ v(k + 1) = Append(v(k), s[k + 1]) /\ s[k + 1] \in AnyChange
            BY <3>1, Initials
        <3>3. s[k + 1].kind \in K
            BY <1>1, <3>1 DEF Members
        <3> HIDE DEF v
        <3>4. OfKinds(Append(v(k), s[k + 1]), K) = Append(OfKinds(v(k), K), s[k + 1])
            BY <3>2, <3>3, KindsStep
        <3> QED
            BY <2>2, <3>1, <3>2, <3>4
    <2>3. T \in SUBSET Nat
        OBVIOUS
    <2>4. n \in T
        <3> HIDE DEF T
        <3>1. \A k \in 0 .. n : k \in T
            BY <2>0, <2>1, <2>2, <2>3, UpTo
        <3> QED
            BY <2>0, <3>1
    <2>5. v(n) = s
        BY Initials
    <2> QED
        BY <2>4, <2>5
<1>2. ASSUME \A c \in Members(s) : c.kind \notin K PROVE OfKinds(s, K) = << >>
    <2> DEFINE u == OfKinds(s, K)
    <2>1. u \in Seq(AnyChange) /\ Members(u) = {}
        <3>1. Members(OfKinds(s, K)) = {c \in Members(s) : c.kind \in K}
            BY KindsMembers
        <3>2. OfKinds(s, K) \in Seq(AnyChange)
            BY KindsStep
        <3> QED
            BY <1>2, <3>1, <3>2
    <2> HIDE DEF u
    <2>2. Len(u) = 0
        <3>1. Len(u) \in Nat /\ (Len(u) # 0 => 1 \in 1 .. Len(u))
            BY <2>1
        <3> QED
            BY <2>1, <3>1 DEF Members
    <2> QED
        BY <2>1, <2>2, EmptySeq DEF u
<1> QED
    BY <1>1, <1>2

\* What is kept of sequences put one after the other.
LEMMA KindsFlat ==
    ASSUME NEW K, NEW q \in Seq(Seq(AnyChange))
    PROVE  OfKinds(FlattenSeq(q), K) = FlattenSeq([i \in DOMAIN q |-> OfKinds(q[i], K)])
<1> DEFINE n == Len(q)
           z == [i \in DOMAIN q |-> OfKinds(q[i], K)]
           T == {k \in Nat : OfKinds(FlatTo(q)[k], K) = FlatTo(z)[k]}
<1>0. n \in Nat /\ DOMAIN q = 1 .. n /\ \A i \in 1 .. n : q[i] \in Seq(AnyChange)
    OBVIOUS
<1>1. z \in Seq(Seq(AnyChange)) /\ Len(z) = n /\ \A i \in 1 .. n : z[i] = OfKinds(q[i], K)
    <2> DEFINE S == Seq(AnyChange)
    <2>1. \A i \in 1 .. n : OfKinds(q[i], K) \in S
        BY <1>0, KindsStep
    <2> HIDE DEF S, n
    <2>2. z \in [1 .. n -> S] /\ \A i \in 1 .. n : z[i] = OfKinds(q[i], K)
        BY <1>0, <2>1
    <2> HIDE DEF z
    <2>3. z \in Seq(S) /\ Len(z) = n
        BY <1>0, <2>2
    <2> QED
        BY <2>2, <2>3 DEF S
<1> HIDE DEF z
<1>2. /\ FlatTo(q)[0] = << >>
      /\ \A i \in 1 .. n : FlatTo(q)[i] = FlatTo(q)[i - 1] \o q[i]
      /\ \A i \in 0 .. n : FlatTo(q)[i] \in Seq(AnyChange)
    BY FlatPrefixes, Zenon
<1>3. /\ FlatTo(z)[0] = << >>
      /\ \A i \in 1 .. n : FlatTo(z)[i] = FlatTo(z)[i - 1] \o z[i]
    <2>1. /\ FlatTo(z)[0] = << >>
          /\ \A i \in 1 .. Len(z) : FlatTo(z)[i] = FlatTo(z)[i - 1] \o z[i]
        BY <1>1, FlatPrefixes, Zenon
    <2> QED
        BY <1>1, <2>1
<1>4. 0 \in T
    BY <1>2, <1>3, KindsStep
<1>5. ASSUME NEW k \in 0 .. n - 1, k \in T PROVE k + 1 \in T
    <2>1. k + 1 \in 1 .. n /\ (k + 1) - 1 = k /\ k + 1 \in Nat /\ k \in 0 .. n
        BY <1>0
    <2> DEFINE x == FlatTo(q)[k]
               y == q[k + 1]
    <2>2. x \in Seq(AnyChange) /\ y \in Seq(AnyChange)
        BY <1>0, <1>2, <2>1
    <2>3. FlatTo(q)[k + 1] = x \o y
        BY <1>2, <2>1
    <2>4. FlatTo(z)[k + 1] = FlatTo(z)[k] \o OfKinds(y, K)
        BY <1>1, <1>3, <2>1
    <2>5. OfKinds(x, K) = FlatTo(z)[k]
        BY <1>5
    <2> HIDE DEF x, y
    <2>6. OfKinds(x \o y, K) = OfKinds(x, K) \o OfKinds(y, K)
        BY <2>2, KindsJoin
    <2> QED
        BY <2>1, <2>3, <2>4, <2>5, <2>6
<1>6. T \in SUBSET Nat
    OBVIOUS
<1>7. n \in T
    <2> HIDE DEF T
    <2>1. \A k \in 0 .. n : k \in T
        BY <1>0, <1>4, <1>5, <1>6, UpTo
    <2> QED
        BY <1>0, <2>1
<1>8. FlattenSeq(q) = FlatTo(q)[n]
    BY FlattenIsFlat
<1>9. FlattenSeq(z) = FlatTo(z)[n]
    BY <1>1, FlattenIsFlat
<1> QED
    BY <1>7, <1>8, <1>9 DEF z

\* Two lists of sequences that have the same lengths and members.
SameParts(q, z) ==
    /\ Len(q) = Len(z)
    /\ \A i \in 1 .. Len(q) : Len(q[i]) = Len(z[i]) /\ Members(q[i]) = Members(z[i])

\* Put one after the other, they have the same length and members again.
LEMMA FlatAlike ==
    ASSUME NEW D, NEW q \in Seq(Seq(D)), NEW z \in Seq(Seq(D)), SameParts(q, z)
    PROVE  /\ FlattenSeq(q) \in Seq(D) /\ FlattenSeq(z) \in Seq(D)
           /\ Len(FlattenSeq(q)) = Len(FlattenSeq(z))
           /\ Members(FlattenSeq(q)) = Members(FlattenSeq(z))
<1> DEFINE n == Len(q)
           Q == FlatTo(q)
           Z == FlatTo(z)
           T == {k \in Nat : Len(Q[k]) = Len(Z[k]) /\ Members(Q[k]) = Members(Z[k])}
<1>0. n \in Nat /\ n = Len(z)
    BY DEF SameParts
<1>2. /\ Q[0] = << >>
      /\ \A i \in 1 .. n : Q[i] = Q[i - 1] \o q[i] /\ q[i] \in Seq(D)
      /\ \A i \in 0 .. n : Q[i] \in Seq(D)
    BY FlatPrefixes, Zenon
<1>3. /\ Z[0] = << >>
      /\ \A i \in 1 .. n : Z[i] = Z[i - 1] \o z[i] /\ z[i] \in Seq(D)
      /\ \A i \in 0 .. n : Z[i] \in Seq(D)
    <2>1. /\ Z[0] = << >>
          /\ \A i \in 1 .. Len(z) : Z[i] = Z[i - 1] \o z[i] /\ z[i] \in Seq(D)
          /\ \A i \in 0 .. Len(z) : Z[i] \in Seq(D)
        BY FlatPrefixes, Zenon
    <2> QED
        BY <1>0, <2>1
<1> HIDE DEF Q, Z
<1>4. 0 \in T
    BY <1>2, <1>3
<1>5. ASSUME NEW k \in 0 .. n - 1, k \in T PROVE k + 1 \in T
    <2>1. k + 1 \in 1 .. n /\ (k + 1) - 1 = k /\ k + 1 \in Nat /\ k \in 0 .. n
        BY <1>0
    <2> DEFINE x == Q[k]
               y == q[k + 1]
               a == Z[k]
               b == z[k + 1]
    <2>2. x \in Seq(D) /\ y \in Seq(D) /\ a \in Seq(D) /\ b \in Seq(D)
        BY <1>2, <1>3, <2>1
    <2>3. Q[k + 1] = x \o y /\ Z[k + 1] = a \o b
        BY <1>2, <1>3, <2>1
    <2>4. Len(x) = Len(a) /\ Members(x) = Members(a)
        BY <1>5
    <2>5. Len(y) = Len(b) /\ Members(y) = Members(b)
        BY <2>1 DEF SameParts
    <2> HIDE DEF x, y, a, b
    <2>6. Members(x \o y) = Members(x) \cup Members(y) /\ Members(a \o b) = Members(a) \cup Members(b)
        BY <2>2, MembersMean
    <2>7. Len(x \o y) = Len(x) + Len(y) /\ Len(a \o b) = Len(a) + Len(b)
        BY <2>2, ConcatProperties
    <2> QED
        BY <2>1, <2>3, <2>4, <2>5, <2>6, <2>7
<1>6. T \in SUBSET Nat
    OBVIOUS
<1>7. n \in T /\ n \in 0 .. n
    <2> HIDE DEF T
    <2>1. \A k \in 0 .. n : k \in T
        BY <1>0, <1>4, <1>5, <1>6, UpTo
    <2> QED
        BY <1>0, <2>1
<1>8. FlattenSeq(q) = Q[n] /\ FlattenSeq(z) = Z[n]
    BY <1>0, FlattenIsFlat DEF Q, Z
<1> QED
    BY <1>2, <1>3, <1>7, <1>8

(* ------------------------------- redirecting -------------------------------- *)

\* A change of a move, redirected.
Sent(c) == IF c.path = "n" THEN [c EXCEPT !.path = "d"] ELSE c

\* What redirecting keeps.
LEMMA SentMeans ==
    ASSUME NEW c \in AnyChange, {"n", "d"} \subseteq Paths
    PROVE  /\ Sent(c) \in AnyChange /\ Sent(c).kind = c.kind /\ Sent(c).start = c.start
           /\ Sent(c).path = IF c.path = "n" THEN "d" ELSE c.path
BY DEF Sent, AnyChange

\* What a move is told: edits, none of the file that the user wants, and the
\* creation of the file that the server has chosen.
Told(edits, ops) ==
    /\ \A e \in Members(edits) : e.kind = "edit" /\ e.path # "d"
    /\ \A c \in Members(ops) : c.kind = "create" /\ c.path = "n"

\* A sequence of one.
LEMMA OfOne ==
    ASSUME NEW s \in Seq(AnyChange), Len(s) = 1
    PROVE  s[1] \in AnyChange /\ s = Append(<< >>, s[1]) /\ Members(s) = {s[1]} /\ PathsOf(s) = {s[1].path}
<1>1. 1 \in 1 .. Len(s) /\ s[1] \in AnyChange /\ DOMAIN s = {1} /\ \A i \in 1 .. Len(s) : i = 1
    OBVIOUS
<1>2. << >> \in Seq(AnyChange)
    OBVIOUS
<1>3. s = Append(<< >>, s[1])
    BY <1>1
<1> QED
    BY <1>1, <1>3 DEF Members, PathsOf

\* What redirecting makes of what the move was told.
LEMMA RetargetMeans ==
    ASSUME NEW F \in Seq(AnyChange), NEW O \in Seq(AnyChange), Told(F, O), {"n", "d"} \subseteq Paths,
           ~Retarget(WorkspaceEdit(F, O), "d").error
    PROVE  /\ Len(O) = 1 /\ O[1].kind = "create" /\ O[1].path = "n" /\ O[1] \in AnyChange
           /\ Retarget(WorkspaceEdit(F, O), "d") =
                WorkspaceEdit([i \in 1 .. Len(F) |-> Sent(F[i])], [i \in 1 .. Len(O) |-> Sent(O[i])])
<1> DEFINE we == WorkspaceEdit(F, O)
           created == CreateTargets(O)
           Redirected(c) == IF c.kind \in {"create", "edit"}
                            THEN IF c.path \in created THEN [c EXCEPT !.path = "d"] ELSE c
                            ELSE c
           E1 == [i \in DOMAIN F |-> Redirected(F[i])]
           O1 == [i \in DOMAIN O |-> Redirected(O[i])]
<1>1. OfKind(O, "create") = O
    BY KindsWhole DEF OfKind, Told
<1>2. we.edits = F /\ we.ops = O
    BY DEF WorkspaceEdit
<1>3. Retarget(we, "d") = IF Len(O) # 1 THEN NoEdit ELSE WorkspaceEdit(E1, O1)
    BY <1>1, <1>2 DEF Retarget
<1>4. Len(O) = 1
    BY <1>3 DEF NoEdit
<1>5. O[1] \in AnyChange /\ O[1].kind = "create" /\ O[1].path = "n" /\ PathsOf(O) = {"n"}
    BY <1>4, OfOne DEF Told
<1>6. created = {"n"}
    BY <1>1, <1>5 DEF CreateTargets
<1> HIDE DEF created
<1>7. E1 = [i \in 1 .. Len(F) |-> Sent(F[i])]
    <2>1. DOMAIN F = 1 .. Len(F)
        OBVIOUS
    <2>2. ASSUME NEW i \in 1 .. Len(F) PROVE Redirected(F[i]) = Sent(F[i])
        <3>1. F[i].kind = "edit"
            BY DEF Told, Members
        <3> QED
            BY <1>6, <3>1 DEF Sent
    <2> HIDE DEF Redirected
    <2> QED
        BY <2>1, <2>2
<1>8. O1 = [i \in 1 .. Len(O) |-> Sent(O[i])]
    <2>1. DOMAIN O = 1 .. Len(O)
        OBVIOUS
    <2>2. ASSUME NEW i \in 1 .. Len(O) PROVE Redirected(O[i]) = Sent(O[i])
        <3>1. O[i].kind = "create"
            BY DEF Told, Members
        <3> QED
            BY <1>6, <3>1 DEF Sent
    <2> HIDE DEF Redirected
    <2> QED
        BY <2>1, <2>2
<1> HIDE DEF E1, O1
<1> QED
    BY <1>3, <1>4, <1>5, <1>7, <1>8

\* Edits only, after the creation of a file that is not there.
LEMMA CreatedThenEdited ==
    ASSUME NEW disk \in Trees, NEW c \in AnyChange, c.kind = "create", c.path \notin DOMAIN disk,
           NEW s \in Seq(AnyChange), EditsApart(s)
    PROVE  /\ Put(disk, c.path, << >>) \in Trees
           /\ Outcome(Perform(Files(disk), c), s) = Outcome(Files(Put(disk, c.path, << >>)), s)
           /\ MakeOf(Put(disk, c.path, << >>), s)
<1>1. c.path \in Paths
    BY DEF AnyChange
<1>2. Put(disk, c.path, << >>) \in Trees
    BY <1>1, SheetsMean, TreesChange
<1>3. Feasible(disk, c) /\ MadeBy(disk, c) = Put(disk, c.path, << >>)
    BY DEF Feasible, MadeBy
<1>4. Perform(Files(disk), c) = Files(Put(disk, c.path, << >>))
    BY <1>3, PerformMeans
<1>5. MakeOf(Put(disk, c.path, << >>), s)
    BY <1>2, EditsMake
<1> QED
    BY <1>2, <1>4, <1>5

\* What the phases make of one creation and some edits.
LEMMA PhasesOfTwo ==
    ASSUME NEW r \in FileOutcomes, NEW F \in Seq(AnyChange), NEW O \in Seq(AnyChange),
           Len(O) = 1, O[1].kind = "create"
    PROVE  Outcome(r, Phases(WorkspaceEdit(F, O))) = Outcome(Perform(r, O[1]), F)
<1>1. O[1] \in AnyChange /\ O = Append(<< >>, O[1]) /\ Members(O) = {O[1]} /\ << >> \in Seq(AnyChange)
    BY OfOne
<1>2. OfKind(O, "create") = O /\ OfKind(O, "rename") = << >> /\ OfKind(O, "delete") = << >>
    BY <1>1, KindsWhole DEF OfKind
<1>3. Phases(WorkspaceEdit(F, O)) = O \o F \o << >> \o << >>
    BY <1>2 DEF Phases, WorkspaceEdit
<1>4. Outcome(r, O) = Perform(r, O[1])
    <2> DEFINE c == O[1]
    <2>1. Outcome(r, Append(<< >>, c)) = Perform(Outcome(r, << >>), c)
        BY <1>1, OutcomeSteps
    <2>2. Outcome(r, << >>) = r
        BY OutcomeSteps
    <2> QED
        BY <1>1, <2>1, <2>2
<1> DEFINE x == Perform(r, O[1])
           y == Outcome(x, F)
<1>5. x \in FileOutcomes
    BY <1>1, PerformTyped
<1> HIDE DEF x
<1>6. y \in FileOutcomes
    BY <1>5, OutcomeSteps
<1>7. Outcome(r, O \o F \o << >> \o << >>) = Outcome(Outcome(Outcome(Outcome(r, O), F), << >>), << >>)
    <2> DEFINE e == << >>
    <2>1. e \in Seq(AnyChange)
        BY <1>1
    <2> HIDE DEF e
    <2>2. Outcome(r, O \o F \o e \o e) = Outcome(Outcome(Outcome(Outcome(r, O), F), e), e)
        BY <2>1, OutcomeOfFour
    <2> QED
        BY <2>2 DEF e
<1> HIDE DEF y
<1>8. Outcome(y, << >>) = y
    BY <1>6, OutcomeSteps
<1> QED
    BY <1>3, <1>4, <1>7, <1>8 DEF x, y

\* What the server meant by one creation and some edits.
LEMMA MeantOfTwo ==
    ASSUME NEW r \in FileOutcomes, NEW s \in Seq(AnyChange), InPhase(s),
           \A c \in Members(s) : c.kind \in {"create", "edit"},
           Len(OfKind(s, "create")) = 1
    PROVE  Outcome(r, s) = Outcome(Perform(r, OfKind(s, "create")[1]), OfKind(s, "edit"))
<1> DEFINE C == OfKind(s, "create")
           E == OfKind(s, "edit")
           c == C[1]
<1>1. OfKind(s, "rename") = << >> /\ OfKind(s, "delete") = << >>
    <2>1. /\ \A d \in Members(s) : d.kind \notin {"rename"}
          /\ \A d \in Members(s) : d.kind \notin {"delete"}
        OBVIOUS
    <2> QED
        BY <2>1, KindsWhole DEF OfKind
<1>2. C \in Seq(AnyChange) /\ E \in Seq(AnyChange)
    BY KindsStep DEF OfKind
<1>3. Outcome(r, s) = Outcome(Outcome(Outcome(Outcome(r, C), E), << >>), << >>)
    BY <1>1, Reordered DEF ByPhase
<1>4. c \in AnyChange /\ C = Append(<< >>, c) /\ << >> \in Seq(AnyChange)
    BY <1>2, OfOne
<1> HIDE DEF C, E
<1>5. Outcome(r, C) = Perform(r, c)
    <2> HIDE DEF c
    <2>1. Outcome(r, Append(<< >>, c)) = Perform(Outcome(r, << >>), c)
        BY <1>4, OutcomeSteps
    <2>2. Outcome(r, << >>) = r
        BY OutcomeSteps
    <2> QED
        BY <1>4, <2>1, <2>2
<1> DEFINE x == Perform(r, c)
           y == Outcome(x, E)
<1>6. x \in FileOutcomes
    BY <1>4, PerformTyped
<1> HIDE DEF x
<1>7. y \in FileOutcomes
    BY <1>2, <1>6, OutcomeSteps
<1> HIDE DEF y
<1>8. Outcome(y, << >>) = y
    BY <1>7, OutcomeSteps
<1> QED
    BY <1>3, <1>5, <1>8 DEF x, y, C, E

\* The edits of a move, redirected, make of the file that the user wants what
\* the edits make of the file that the server has chosen.
LEMMA SentMakes ==
    ASSUME NEW disk \in Trees, "n" \notin DOMAIN disk, "d" \notin DOMAIN disk, {"n", "d"} \subseteq Paths,
           NEW E, \A e \in E : e \in AnyChange /\ e.path # "d",
           NEW E1, E1 = {Sent(e) : e \in E},
           AllFit(Put(disk, "d", << >>), E1),
           NEW g, Made(Put(disk, "d", << >>), E1, g)
    PROVE  /\ AllFit(Put(disk, "n", << >>), E)
           /\ \A h : Made(Put(disk, "n", << >>), E, h) => g = Put(Without(h, "n"), "d", h["n"])
<1> DEFINE fd == Put(disk, "d", << >>)
           fn == Put(disk, "n", << >>)
<1>1. /\ DOMAIN fd = DOMAIN disk \cup {"d"} /\ fd["d"] = << >>
      /\ \A p \in DOMAIN disk : fd[p] = disk[p]
    BY DEF Put
<1>2. /\ DOMAIN fn = DOMAIN disk \cup {"n"} /\ fn["n"] = << >>
      /\ \A p \in DOMAIN disk : fn[p] = disk[p]
    BY DEF Put
<1> HIDE DEF fd, fn
<1>3. ASSUME NEW e \in E
      PROVE  /\ Sent(e) \in E1 /\ Sent(e).start = e.start
             /\ Sent(e).path = IF e.path = "n" THEN "d" ELSE e.path
    BY SentMeans
<1>4. \A t : \A e \in E : /\ Fits(t, Sent(e)) <=> Fits(t, e)
                          /\ Inserted(t, Sent(e)) = Inserted(t, e)
    BY <1>3 DEF Fits, Inserted
<1>5. ASSUME NEW e \in E PROVE e.path \in DOMAIN fn /\ Fits(fn[e.path], e)
    <2>1. Sent(e).path \in DOMAIN fd /\ Fits(fd[Sent(e).path], Sent(e))
        BY <1>3 DEF AllFit, fd
    <2>2. Fits(fd[Sent(e).path], e)
        BY <1>4, <2>1
    <2>3. CASE e.path = "n"
        BY <1>1, <1>2, <1>3, <2>2, <2>3
    <2>4. CASE e.path # "n"
        BY <1>1, <1>2, <1>3, <2>1, <2>2, <2>4
    <2> QED
        BY <2>3, <2>4
<1>6. ASSUME NEW h, Made(fn, E, h)
      PROVE  g = Put(Without(h, "n"), "d", h["n"])
    <2> DEFINE k == Put(Without(h, "n"), "d", h["n"])
    <2>1. DOMAIN h = DOMAIN disk \cup {"n"}
        BY <1>2, <1>6 DEF Made
    <2>8. \A p \in DOMAIN fn : \A e \in E : e.path = p => h[p] = Inserted(fn[p], e)
        BY <1>6 DEF Made
    <2>2. k = [p \in DOMAIN disk \cup {"d"} |-> k[p]] /\ k["d"] = h["n"] /\ \A p \in DOMAIN disk : k[p] = h[p]
        BY <2>1 DEF Put, Without
    <2>3. g = [p \in DOMAIN disk \cup {"d"} |-> g[p]]
        BY <1>1 DEF Made, fd
    <2>4. g["d"] = h["n"]
        <3>1. CASE \E e \in E : e.path = "n"
            <4>1. PICK e \in E : e.path = "n"
                BY <3>1
            <4>2. h["n"] = Inserted(<< >>, e)
                BY <1>2, <2>8, <4>1
            <4>3. g["d"] = Inserted(<< >>, Sent(e))
                BY <1>1, <1>3, <4>1 DEF Made, fd
            <4> QED
                BY <1>4, <4>2, <4>3
        <3>2. CASE ~\E e \in E : e.path = "n"
            <4>1. h["n"] = << >>
                BY <1>2, <1>6, <3>2 DEF Made
            <4>2. \A e \in E1 : e.path # "d"
                BY <1>3, <3>2
            <4>3. g["d"] = << >>
                BY <1>1, <4>2 DEF Made, fd
            <4> QED
                BY <4>1, <4>3
        <3> QED
            BY <3>1, <3>2
    <2>5. ASSUME NEW p \in DOMAIN disk PROVE g[p] = h[p]
        <3>0. p # "n" /\ p # "d"
            OBVIOUS
        <3>1. CASE \E e \in E : e.path = p
            <4>1. PICK e \in E : e.path = p
                BY <3>1
            <4>2. h[p] = Inserted(disk[p], e)
                BY <1>2, <2>8, <4>1
            <4>3. Sent(e).path = p
                BY <1>3, <3>0, <4>1
            <4>4. g[p] = Inserted(disk[p], Sent(e))
                BY <1>1, <1>3, <4>3 DEF Made, fd
            <4> QED
                BY <1>4, <4>2, <4>4
        <3>2. CASE ~\E e \in E : e.path = p
            <4>1. h[p] = disk[p]
                BY <1>2, <1>6, <3>2 DEF Made
            <4>2. \A e \in E1 : e.path # p
                BY <1>3, <3>0, <3>2
            <4>3. g[p] = disk[p]
                BY <1>1, <4>2 DEF Made, fd
            <4> QED
                BY <4>1, <4>3
        <3> QED
            BY <3>1, <3>2
    <2> HIDE DEF k
    <2>6. \A p \in DOMAIN disk \cup {"d"} : g[p] = k[p]
        BY <2>2, <2>4, <2>5
    <2>7. g = k
        BY <2>2, <2>3, <2>6
    <2> QED
        BY <2>7 DEF k
<1> QED
    BY <1>5, <1>6 DEF AllFit, fd, fn

\* The server's answers, and what they say of edits and creations.
Says(s, F, O) ==
    /\ \A c \in Members(s) : c.kind \in {"create", "edit"}
    /\ OfKind(s, "create") = O
    /\ Len(OfKind(s, "edit")) = Len(F) /\ Members(OfKind(s, "edit")) = Members(F)

\* What a move makes of the files is what the server meant, but for the name of
\* the file it has chosen.
MoveRight(disk, s, result) ==
    LET meant == InOrder(disk, s)
    IN /\ meant.ok
       /\ result.files = Put(Without(meant.files, "n"), "d", meant.files["n"])

\* An applied move that was redirected is right.
LEMMA RedirectedIsRight ==
    ASSUME NEW disk \in Trees, "n" \notin DOMAIN disk, "d" \notin DOMAIN disk, {"n", "d"} \subseteq Paths,
           NEW F \in Seq(AnyChange), NEW O \in Seq(AnyChange), Told(F, O),
           NEW s \in Seq(AnyChange), InPhase(s), Says(s, F, O),
           ApplyBatch(disk, Retarget(WorkspaceEdit(F, O), "d")).ok
    PROVE  MoveRight(disk, s, ApplyBatch(disk, Retarget(WorkspaceEdit(F, O), "d")))
<1> DEFINE W == Retarget(WorkspaceEdit(F, O), "d")
           r == Files(disk)
           F1 == [i \in 1 .. Len(F) |-> Sent(F[i])]
           O1 == [i \in 1 .. Len(O) |-> Sent(O[i])]
           E == OfKind(s, "edit")
           result == ApplyBatch(disk, W)
           c0 == O[1]
           c1 == Sent(O[1])
<1>0. r \in FileOutcomes /\ ~Failed.ok
    BY DEF FileOutcomes, Failed
<1>1. ~W.error /\ Cardinality(PathsOf(W.edits)) = Len(W.edits) /\ result = Outcome(r, Phases(W))
    BY <1>0 DEF ApplyBatch
<1>2. Len(O) = 1 /\ c0.kind = "create" /\ c0.path = "n" /\ c0 \in AnyChange /\ W = WorkspaceEdit(F1, O1)
    BY <1>1, RetargetMeans
<1>3. c1 \in AnyChange /\ c1.kind = "create" /\ c1.path = "d"
    BY <1>2, SentMeans
<1>4. /\ F1 \in Seq(AnyChange) /\ Len(F1) = Len(F) /\ \A i \in 1 .. Len(F) : F1[i] = Sent(F[i])
      /\ \A i \in 1 .. Len(F) : F[i] \in AnyChange /\ F[i].kind = "edit" /\ F[i].path # "d" /\ F[i] \in Members(F)
    <2>0. Len(F) \in Nat /\ \A i \in 1 .. Len(F) : F[i] \in AnyChange
        OBVIOUS
    <2>1. \A i \in 1 .. Len(F) : Sent(F[i]) \in AnyChange
        BY <2>0, SentMeans
    <2>2. F1 \in Seq(AnyChange) /\ Len(F1) = Len(F) /\ \A i \in 1 .. Len(F) : F1[i] = Sent(F[i])
        BY <2>0, <2>1
    <2>3. \A i \in 1 .. Len(F) : F[i] \in Members(F)
        BY DEF Members
    <2> QED
        BY <2>0, <2>2, <2>3 DEF Told
<1>5. O1 \in Seq(AnyChange) /\ Len(O1) = 1 /\ O1[1] = c1
    <2>1. 1 .. Len(O) = {1}
        BY <1>2
    <2> QED
        BY <1>2, <1>3, <2>1
<1>6. Members(F1) = {Sent(e) : e \in Members(F)}
    BY <1>4 DEF Members
<1>7. W.edits = F1
    <2> HIDE DEF W, F1, O1
    <2>1. WorkspaceEdit(F1, O1).edits = F1
        BY DEF WorkspaceEdit
    <2> QED
        BY <1>2, <2>1
<1>8. E \in Seq(AnyChange) /\ OfKind(s, "create") = O /\ Len(E) = Len(F) /\ Members(E) = Members(F)
    BY KindsStep DEF Says, OfKind
<1> HIDE DEF W, F1, O1, E, c1, c0
<1>9. PathsApart(F1)
    BY <1>1, <1>4, <1>7, PathsCount
<1>10. \A i \in 1 .. Len(F) : /\ F1[i].kind = "edit"
                              /\ F1[i].path = IF F[i].path = "n" THEN "d" ELSE F[i].path
    BY <1>4, SentMeans
<1>11. EditsApart(F1)
    BY <1>4, <1>9, <1>10 DEF EditsApart, PathsApart
<1>12. PathsApart(F)
    BY <1>4, <1>9, <1>10 DEF PathsApart
<1>13. PathsApart(E)
    <2>1. Cardinality(PathsOf(F)) = Len(F)
        BY <1>12, PathsCount
    <2>2. PathsOf(E) = {c.path : c \in Members(E)} /\ PathsOf(F) = {c.path : c \in Members(F)}
        BY <1>8 DEF PathsOf, Members
    <2> QED
        BY <1>8, <2>1, <2>2, PathsCount
<1>14. EditsApart(E)
    <2>1. \A i \in 1 .. Len(E) : E[i] \in Members(E)
        BY DEF Members
    <2>2. \A e \in Members(E) : e.kind = "edit"
        BY <1>8 DEF Told
    <2> QED
        BY <1>13, <2>1, <2>2 DEF EditsApart, PathsApart
<1>15. result = Outcome(Perform(r, c1), F1)
    BY <1>0, <1>1, <1>2, <1>3, <1>4, <1>5, PhasesOfTwo
<1>16. Outcome(r, s) = Outcome(Perform(r, c0), E)
    <2>1. \A c \in Members(s) : c.kind \in {"create", "edit"}
        BY DEF Says
    <2> QED
        BY <1>0, <1>2, <1>8, <2>1, MeantOfTwo DEF E, c0
<1> DEFINE fd == Put(disk, "d", << >>)
           fn == Put(disk, "n", << >>)
<1>17. result = Outcome(Files(fd), F1) /\ MakeOf(fd, F1)
    BY <1>3, <1>4, <1>11, <1>15, CreatedThenEdited
<1>18. Outcome(r, s) = Outcome(Files(fn), E) /\ MakeOf(fn, E)
    BY <1>2, <1>8, <1>14, <1>16, CreatedThenEdited
<1>19. result.ok
    BY DEF W
<1>20. AllFit(fd, Members(F1)) /\ \E g : result = Files(g) /\ Made(fd, Members(F1), g)
    BY <1>0, <1>17, <1>19 DEF MakeOf
<1>21. PICK g : result = Files(g) /\ Made(fd, Members(F1), g)
    BY <1>20
<1> HIDE DEF result
<1>22. \A e \in Members(F) : e \in AnyChange /\ e.path # "d"
    BY <1>4 DEF Members
<1>23. /\ AllFit(fn, Members(F))
       /\ \A h : Made(fn, Members(F), h) => g = Put(Without(h, "n"), "d", h["n"])
    BY <1>6, <1>20, <1>21, <1>22, SentMakes
<1> HIDE DEF fd, fn
<1>24. PICK h : Outcome(r, s) = Files(h) /\ Made(fn, Members(F), h)
    BY <1>8, <1>18, <1>23 DEF MakeOf
<1>25. g = Put(Without(h, "n"), "d", h["n"])
    BY <1>23, <1>24
<1>26. Files(h).ok /\ Files(h).files = h /\ Files(g).files = g
    BY DEF Files
<1>27. MoveRight(disk, s, result)
    BY <1>21, <1>24, <1>25, <1>26 DEF MoveRight, InOrder
<1> QED
    BY <1>27 DEF result, W

\* What the workspaces and changes that are asked about are.
LEMMA AskedChanges ==
    /\ \A f : Disk(f) => f \in Trees
    /\ Changes \subseteq AnyChange /\ MoveChanges \subseteq AnyChange
    /\ \A s : (s \in Seq(Changes) => s \in Seq(AnyChange)) /\ (s \in Seq(MoveChanges) => s \in Seq(AnyChange))
    /\ \A c \in MoveChanges : c.kind \in {"create", "edit"} /\ (c.kind = "create" => c.path = "n")
<1>1. Changes \subseteq AnyChange
    BY DEF Changes, AnyChange
<1>2. MoveChanges \subseteq Changes
    BY DEF MoveChanges
<1>3. ASSUME NEW A, NEW B, A \subseteq B, NEW s \in Seq(A) PROVE s \in Seq(B)
    <2>1. Len(s) \in Nat /\ s \in [1 .. Len(s) -> A]
        OBVIOUS
    <2>2. s \in [1 .. Len(s) -> B]
        BY <1>3, <2>1
    <2> QED
        BY <2>1, <2>2
<1>4. ASSUME NEW f, Disk(f) PROVE f \in Trees
    <2>1. DOMAIN f \subseteq Paths /\ f \in [DOMAIN f -> Seq(STRING)]
        BY <1>4 DEF Disk
    <2>2. STRING \subseteq STRING \cup {"t"}
        OBVIOUS
    <2>3. \A p \in DOMAIN f : f[p] \in Sheet
        BY <1>3, <2>1, <2>2 DEF Sheet
    <2> QED
        BY <2>1, <2>3, TreeMeans
<1>5. \A c \in MoveChanges : c.kind \in {"create", "edit"} /\ (c.kind = "create" => c.path = "n")
    BY DEF MoveChanges
<1>6. MoveChanges \subseteq AnyChange
    BY <1>1, <1>2
<1> HIDE DEF Changes
<1>7. \A s : (s \in Seq(Changes) => s \in Seq(AnyChange)) /\ (s \in Seq(MoveChanges) => s \in Seq(AnyChange))
    BY <1>1, <1>3, <1>6
<1> QED
    BY <1>1, <1>4, <1>5, <1>6, <1>7

\* What is read from an answer that can be read.
LEMMA ParsedMeans ==
    ASSUME NEW disk, NEW s, ~ParseChanges(disk, s).error
    PROVE  ParseChanges(disk, s) = WorkspaceEdit(SortByPath(OfKind(s, "edit")), OfKinds(s, Kinds \ {"edit"}))
<1> DEFINE E == OfKind(s, "edit")
           read == WorkspaceEdit(SortByPath(E), OfKinds(s, Kinds \ {"edit"}))
           Converted(e) == IF e.path \in CreateTargets(s) THEN ConvertsForNewFile(e) ELSE Converts(disk, e)
<1>1. ParseChanges(disk, s) = IF \E i \in DOMAIN E : ~Converted(E[i]) THEN NoEdit ELSE read
    BY DEF ParseChanges
<1> HIDE DEF read, E, Converted
<1>2. ParseChanges(disk, s) = read
    BY <1>1 DEF NoEdit
<1> QED
    BY <1>2 DEF read, E

\* The changes of other files than the one that the user wants.
Others == {c \in AnyChange : c.path # "d"}

\* An answer that can be read edits no file that is not there.
LEMMA EditsOthers ==
    ASSUME NEW disk, "d" \notin DOMAIN disk, NEW s \in Seq(MoveChanges), ~ParseChanges(disk, s).error
    PROVE  OfKind(s, "edit") \in Seq(Others)
<1> DEFINE E == OfKind(s, "edit")
           C == OfKind(s, "create")
           Converted(e) == IF e.path \in CreateTargets(s) THEN ConvertsForNewFile(e) ELSE Converts(disk, e)
           read == WorkspaceEdit(SortByPath(E), OfKinds(s, Kinds \ {"edit"}))
<1>1. s \in Seq(AnyChange)
    BY AskedChanges
<1>2. E \in Seq(AnyChange) /\ C \in Seq(AnyChange)
    BY <1>1, KindsStep DEF OfKind
<1>3. ParseChanges(disk, s) = IF \E i \in DOMAIN E : ~Converted(E[i]) THEN NoEdit ELSE read
    BY DEF ParseChanges
<1>4. Members(C) = {c \in Members(s) : c.kind \in {"create"}}
    BY <1>1, KindsMembers DEF OfKind
<1>5. CreateTargets(s) = PathsOf(C)
    BY DEF CreateTargets
<1> HIDE DEF E, C, read
<1>6. \A i \in DOMAIN E : Converted(E[i])
    <2> HIDE DEF Converted
    <2> QED
        BY <1>3 DEF NoEdit
<1>7. \A p \in CreateTargets(s) : p = "n"
    <2>1. \A c \in Members(C) : c.path = "n"
        <3>1. \A c \in Members(s) : c \in MoveChanges
            BY DEF Members
        <3> QED
            BY <1>4, <3>1, AskedChanges
    <2>2. PathsOf(C) = {c.path : c \in Members(C)}
        BY <1>2 DEF PathsOf, Members
    <2> QED
        BY <1>5, <2>1, <2>2
<1>8. ASSUME NEW i \in 1 .. Len(E) PROVE E[i] \in Others
    <2>1. i \in DOMAIN E /\ E[i] \in AnyChange
        BY <1>2
    <2>2. E[i].path \in CreateTargets(s) \/ E[i].path \in DOMAIN disk
        BY <1>6, <2>1 DEF Converts
    <2> QED
        BY <1>7, <2>1, <2>2 DEF Others
<1>9. E \in Seq(Others)
    <2>1. Len(E) \in Nat /\ E = [i \in 1 .. Len(E) |-> E[i]]
        BY <1>2
    <2>2. E \in [1 .. Len(E) -> Others]
        BY <1>8, <2>1
    <2> QED
        BY <2>1, <2>2
<1> QED
    BY <1>9 DEF E

\* What is merged of the answers to a move.
LEMMA MergedMeans ==
    ASSUME NEW disk, NEW A \in Seq(Seq(AnyChange)), \A i \in 1 .. Len(A) : ~ParseChanges(disk, A[i]).error
    PROVE  MergeEdits([i \in DOMAIN A |-> ParseChanges(disk, A[i])]) =
             WorkspaceEdit(FlattenSeq([i \in DOMAIN A |-> SortByPath(OfKind(A[i], "edit"))]),
                           FlattenSeq([i \in DOMAIN A |-> OfKinds(A[i], Kinds \ {"edit"})]))
<1> DEFINE S == DOMAIN A
           z(i) == SortByPath(OfKind(A[i], "edit"))
           o(i) == OfKinds(A[i], Kinds \ {"edit"})
           parsed == [i \in S |-> ParseChanges(disk, A[i])]
<1>1. S = 1 .. Len(A)
    OBVIOUS
<1>2. ASSUME NEW i \in S PROVE ParseChanges(disk, A[i]) = WorkspaceEdit(z(i), o(i))
    BY <1>1, ParsedMeans
<1> HIDE DEF z, o, S
<1>3. DOMAIN parsed = S /\ \A i \in S : parsed[i].edits = z(i) /\ parsed[i].ops = o(i)
    <2>1. \A e, p : WorkspaceEdit(e, p).edits = e /\ WorkspaceEdit(e, p).ops = p
        BY DEF WorkspaceEdit
    <2>2. DOMAIN parsed = S /\ \A i \in S : parsed[i] = WorkspaceEdit(z(i), o(i))
        BY <1>2
    <2> HIDE DEF parsed
    <2> QED
        BY <2>1, <2>2
<1> HIDE DEF parsed
<1>4. /\ [i \in DOMAIN parsed |-> parsed[i].edits] = [i \in S |-> z(i)]
      /\ [i \in DOMAIN parsed |-> parsed[i].ops] = [i \in S |-> o(i)]
    BY <1>3
<1>5. MergeEdits(parsed) = WorkspaceEdit(FlattenSeq([i \in S |-> z(i)]), FlattenSeq([i \in S |-> o(i)]))
    BY <1>4 DEF MergeEdits
<1> QED
    BY <1>5 DEF parsed, z, o, S

\* The merged answers say what the answers say.
LEMMA MergedSays ==
    ASSUME NEW disk, "d" \notin DOMAIN disk, NEW A \in Seq(Seq(MoveChanges)),
           \A i \in 1 .. Len(A) : ~ParseChanges(disk, A[i]).error
    PROVE  LET F == FlattenSeq([i \in DOMAIN A |-> SortByPath(OfKind(A[i], "edit"))])
               O == FlattenSeq([i \in DOMAIN A |-> OfKinds(A[i], Kinds \ {"edit"})])
           IN /\ F \in Seq(AnyChange) /\ O \in Seq(AnyChange) /\ FlattenSeq(A) \in Seq(AnyChange)
              /\ Told(F, O) /\ Says(FlattenSeq(A), F, O) /\ A \in Seq(Seq(AnyChange))
<1> DEFINE n == Len(A)
           S == DOMAIN A
           D == Seq(AnyChange)
           K == Kinds \ {"edit"}
           P == [i \in S |-> OfKind(A[i], "edit")]
           Z == [i \in S |-> SortByPath(OfKind(A[i], "edit"))]
           F == FlattenSeq(Z)
           O == FlattenSeq([i \in S |-> OfKinds(A[i], K)])
           s == FlattenSeq(A)
<1>1. n \in Nat /\ S = 1 .. n /\ \A i \in 1 .. n : A[i] \in Seq(MoveChanges)
    OBVIOUS
<1>2. \A i \in 1 .. n : A[i] \in D
    BY <1>1, AskedChanges
<1>3. A \in Seq(D)
    <2> HIDE DEF D
    <2>1. A \in [1 .. n -> D]
        <3>1. A = [i \in 1 .. n |-> A[i]]
            OBVIOUS
        <3> QED
            BY <1>2, <3>1
    <2> HIDE DEF n
    <2> QED
        BY <1>1, <2>1
<1>4. s \in Seq(MoveChanges) /\ s \in D
    <2>1. SameParts(A, A)
        BY DEF SameParts
    <2>2. s \in Seq(MoveChanges)
        BY <2>1, FlatAlike
    <2> QED
        BY <2>2, AskedChanges
<1>5. ASSUME NEW i \in 1 .. n
      PROVE  LET e == OfKind(A[i], "edit")
             IN e \in D /\ SortByPath(e) \in D /\ Len(SortByPath(e)) = Len(e)
                /\ Members(SortByPath(e)) = Members(e)
    <2> DEFINE e == OfKind(A[i], "edit")
    <2>1. e \in Seq(AnyChange)
        BY <1>2, KindsStep DEF OfKind
    <2> HIDE DEF e
    <2>2. SortByPath(e) \in Seq(AnyChange) /\ Len(SortByPath(e)) = Len(e) /\ Members(SortByPath(e)) = Members(e)
        BY <2>1, SortKeeps
    <2> QED
        BY <2>1, <2>2 DEF e
<1>6. P \in Seq(D) /\ Z \in Seq(D) /\ SameParts(P, Z)
    <2> HIDE DEF D
    <2>1. P \in [1 .. n -> D] /\ Z \in [1 .. n -> D]
        BY <1>1, <1>5
    <2>2. \A i \in 1 .. n : P[i] = OfKind(A[i], "edit") /\ Z[i] = SortByPath(OfKind(A[i], "edit"))
        BY <1>1
    <2> HIDE DEF P, Z
    <2>3. P \in Seq(D) /\ Z \in Seq(D) /\ Len(P) = n /\ Len(Z) = n
        <3> HIDE DEF n
        <3>1. P \in Seq(D) /\ Len(P) = n
            BY <1>1, <2>1
        <3>2. Z \in Seq(D) /\ Len(Z) = n
            BY <1>1, <2>1
        <3> QED
            BY <3>1, <3>2
    <2>4. \A i \in 1 .. n : Len(P[i]) = Len(Z[i]) /\ Members(P[i]) = Members(Z[i])
        BY <1>5, <2>2
    <2> QED
        BY <2>3, <2>4 DEF SameParts
<1>7. FlattenSeq(P) \in D /\ F \in D /\ Len(FlattenSeq(P)) = Len(F) /\ Members(FlattenSeq(P)) = Members(F)
    <2> HIDE DEF P, Z
    <2> QED
        BY <1>6, FlatAlike
<1>8. OfKind(s, "edit") = FlattenSeq(P)
    BY <1>3, KindsFlat DEF OfKind
<1>17. \A e \in Members(FlattenSeq(P)) : e.path # "d"
    <2>1. \A i \in 1 .. n : OfKind(A[i], "edit") \in Seq(Others)
        BY <1>1, EditsOthers
    <2> DEFINE U == Seq(Others)
    <2>2. P \in Seq(U)
        <3> HIDE DEF U
        <3>1. P \in [1 .. n -> U]
            BY <1>1, <2>1 DEF U
        <3> HIDE DEF P, n
        <3> QED
            BY <1>1, <3>1
    <2>3. SameParts(P, P)
        BY DEF SameParts
    <2> HIDE DEF P
    <2>4. FlattenSeq(P) \in Seq(Others)
        BY <2>2, <2>3, FlatAlike
    <2> QED
        BY <2>4 DEF Members, Others
<1>9. OfKinds(s, K) = O
    <2> HIDE DEF K
    <2> QED
        BY <1>3, KindsFlat
<1> HIDE DEF s, F, O, P, Z, n, S
<1>10. \A c \in Members(s) : c.kind \in {"create", "edit"} /\ (c.kind = "create" => c.path = "n")
    <2>1. \A c \in Members(s) : c \in MoveChanges
        BY <1>4 DEF Members
    <2> QED
        BY <2>1, AskedChanges
<1>11. O \in D /\ Members(O) = {c \in Members(s) : c.kind \in K}
    <2>1. OfKinds(s, K) \in Seq(AnyChange)
        BY <1>4, KindsStep
    <2>2. Members(OfKinds(s, K)) = {c \in Members(s) : c.kind \in K}
        <3> HIDE DEF K
        <3> QED
            BY <1>4, KindsMembers
    <2> QED
        BY <1>9, <2>1, <2>2
<1>12. \A c \in Members(O) : c.kind = "create" /\ c.path = "n"
    BY <1>10, <1>11
<1>13. \A e \in Members(F) : e.kind = "edit" /\ e.path # "d"
    <2>1. Members(OfKind(s, "edit")) = {c \in Members(s) : c.kind \in {"edit"}}
        BY <1>4, KindsMembers DEF OfKind
    <2> QED
        BY <1>7, <1>8, <1>17, <2>1
<1>14. OfKind(s, "create") = O
    <2>1. "create" \in Kinds \ {"edit"}
        BY DEF Kinds
    <2>2. OfKind(OfKinds(s, K), "create") = OfKind(s, "create")
        BY <1>4, <2>1, OpsOfKind
    <2>3. OfKind(O, "create") = O
        <3>1. \A c \in Members(O) : c.kind \in {"create"}
            BY <1>12
        <3> QED
            BY <1>11, <3>1, KindsWhole DEF OfKind
    <2> QED
        BY <1>9, <2>2, <2>3
<1>15. Told(F, O)
    BY <1>12, <1>13 DEF Told
<1>16. Says(s, F, O)
    BY <1>7, <1>8, <1>10, <1>14 DEF Says
<1> QED
    BY <1>3, <1>4, <1>7, <1>11, <1>15, <1>16 DEF s, F, O, Z, S

\* An applied move is right.
LEMMA MoveIsRight ==
    ASSUME NEW disk \in Trees, "n" \notin DOMAIN disk, {"n", "d"} \subseteq Paths,
           NEW A \in Seq(Seq(MoveChanges)), InPhase(FlattenSeq(A)),
           ApplyBatch(disk, MoveToFile(disk, A, "d")).ok
    PROVE  MoveRight(disk, FlattenSeq(A), ApplyBatch(disk, MoveToFile(disk, A, "d")))
<1> DEFINE parsed == [i \in DOMAIN A |-> ParseChanges(disk, A[i])]
           F == FlattenSeq([i \in DOMAIN A |-> SortByPath(OfKind(A[i], "edit"))])
           O == FlattenSeq([i \in DOMAIN A |-> OfKinds(A[i], Kinds \ {"edit"})])
           we == MoveToFile(disk, A, "d")
<1>2. we = IF "d" \in DOMAIN disk \/ \E i \in DOMAIN parsed : parsed[i].error THEN NoEdit
           ELSE Retarget(MergeEdits(parsed), "d")
    BY DEF MoveToFile
<1>3. ~we.error
    BY DEF ApplyBatch, Failed
<1>4. "d" \notin DOMAIN disk /\ (\A i \in DOMAIN parsed : ~parsed[i].error)
      /\ we = Retarget(MergeEdits(parsed), "d")
    <2> HIDE DEF we, parsed
    <2> QED
        BY <1>2, <1>3 DEF NoEdit
<1>5. \A i \in 1 .. Len(A) : ~ParseChanges(disk, A[i]).error
    <2>1. DOMAIN A = 1 .. Len(A)
        OBVIOUS
    <2> QED
        BY <1>4, <2>1
<1>1. /\ F \in Seq(AnyChange) /\ O \in Seq(AnyChange) /\ FlattenSeq(A) \in Seq(AnyChange)
      /\ Told(F, O) /\ Says(FlattenSeq(A), F, O) /\ A \in Seq(Seq(AnyChange))
    BY <1>4, <1>5, MergedSays
<1>6. MergeEdits(parsed) = WorkspaceEdit(F, O)
    BY <1>1, <1>5, MergedMeans
<1> HIDE DEF parsed, F, O, we
<1>7. we = Retarget(WorkspaceEdit(F, O), "d")
    BY <1>4, <1>6
<1>8. ApplyBatch(disk, we).ok
    BY DEF we
<1>9. MoveRight(disk, FlattenSeq(A), ApplyBatch(disk, we))
    BY <1>1, <1>4, <1>7, <1>8, RedirectedIsRight
<1> QED
    BY <1>9 DEF we

(* ------------------------------ the theorems ----------------------------- *)

\* The queries that are put, and what the answers are: the functions' values.
Asked ==
    /\ query.op = "text" => query.text \in Texts
    /\ query.op = "columns" => query.line \in CodeLines
    /\ query.op = "extract" => query.extraction \in Extractions
    /\ query.op = "batch" => query.batch \in Batches
    /\ query.op = "move" => query.move \in Moves
    /\ query.op = "edits" => query.content \in Contents /\ query.edits \in EditLists
TextAnswered ==
    answer.op = "text" =>
        /\ query.op = "text"
        /\ answer.found = [name \in Names |-> [k \in 0 .. LineOf(query.text, Len(query.text) + 1) |->
                                                  ResolveTier2(query.text, k, name)]]
        /\ answer.stripped = StripJava(query.text)
        /\ answer.type = JavaType(query.text)
ColumnsAnswered ==
    answer.op = "columns" =>
        /\ query.op = "columns"
        /\ answer.character = [b \in -1 .. Bytes(query.line) + 2 |-> ToCharacter(query.line, b)]
        /\ answer.column = [c \in -1 .. Bytes(query.line) + 2 |-> ToByteColumn(query.line, c)]
HostAnswered ==
    answer.op = "host" =>
        LET h == query.host
        IN /\ answer.doctor = ProbeServer(h.layers, h.language, h.ws)
           /\ answer.adapter = ProbeAdapter(h.ws)
           /\ answer.tier1 = BuildTier1(h.layers, h.language, h.ws)
           /\ answer.tier2 = BuildBackend(h.layers, h.language, h.ws, h.op)
ExtractAnswered ==
    answer.op = "extract" =>
        /\ query.op = "extract"
        /\ answer.texts = Extract(query.extraction.texts, query.extraction.kind, "new")
EditsAnswered ==
    answer.op = "edits" =>
        /\ query.op = "edits"
        /\ answer.applied = ApplyEdits(query.content, query.edits)
        /\ answer.shown = Preview(query.content, query.edits)

BatchAnswered ==
    answer.op = "batch" =>
        /\ query.op = "batch"
        /\ answer.result = ApplyBatch(query.batch.disk, ParseChanges(query.batch.disk, query.batch.changes))
MoveAnswered ==
    answer.op = "move" =>
        /\ query.op = "move"
        /\ answer.result = ApplyBatch(query.move.disk, MoveToFile(query.move.disk, query.move.answers, "d"))

\* The queries that are put are those of the constants, and stay as they are.
LEMMA AskedAlways == Spec => []Asked
<1>1. Init => Asked
    BY DEF Init, Asked
<1>2. [Next]_vars => UNCHANGED query
    BY DEF Next, vars, AskText, AskColumns, AskRust, AskGo, AskHost, AskBatch, AskMove, AskExtract,
           AskSnippet, AskEdits, Answered
<1>3. Asked /\ [Next]_vars => Asked'
    BY <1>2 DEF Asked
<1> QED
    BY <1>1, <1>3, PTL DEF Spec

\* The answers of the seven kinds.
Answers ==
    /\ TextAnswered /\ ColumnsAnswered /\ HostAnswered /\ ExtractAnswered /\ EditsAnswered
    /\ BatchAnswered /\ MoveAnswered

\* An answer is that of its query.
LEMMA AnswersAlways == Spec => []Answers
<1> USE DEF Answers, TextAnswered, ColumnsAnswered, HostAnswered, ExtractAnswered, EditsAnswered,
       BatchAnswered, MoveAnswered
<1>1. Init => Answers
    BY DEF Init, NoAnswer
<1>2. ASSUME Answers, [Next]_vars PROVE Answers'
    <2>1. CASE AskColumns
        <3>1. answer'.op = "columns" /\ UNCHANGED query /\ query.op = "columns"
            BY <2>1 DEF AskColumns
        <3>2. /\ answer'.character = [b \in -1 .. Bytes(query.line) + 2 |-> ToCharacter(query.line, b)]
              /\ answer'.column = [c \in -1 .. Bytes(query.line) + 2 |-> ToByteColumn(query.line, c)]
            BY <2>1 DEF AskColumns
        <3> QED
            BY <3>1, <3>2
    <2>2. CASE AskHost
        <3>1. answer'.op = "host" /\ UNCHANGED query
            BY <2>2 DEF AskHost
        <3>2. LET h == query.host
              IN /\ answer'.doctor = ProbeServer(h.layers, h.language, h.ws)
                 /\ answer'.adapter = ProbeAdapter(h.ws)
                 /\ answer'.tier1 = BuildTier1(h.layers, h.language, h.ws)
                 /\ answer'.tier2 = BuildBackend(h.layers, h.language, h.ws, h.op)
            BY <2>2 DEF AskHost
        <3> QED
            BY <3>1, <3>2
    <2>3. CASE AskEdits
        <3>1. answer'.op = "edits" /\ UNCHANGED query /\ query.op = "edits"
            BY <2>3 DEF AskEdits
        <3>2. /\ answer'.applied = ApplyEdits(query.content, query.edits)
              /\ answer'.shown = Preview(query.content, query.edits)
            BY <2>3 DEF AskEdits
        <3> QED
            BY <3>1, <3>2
    <2>4. CASE AskText
        <3>1. answer'.op = "text" /\ UNCHANGED query /\ query.op = "text"
            BY <2>4 DEF AskText
        <3>2. /\ answer'.found = [name \in Names |-> [k \in 0 .. LineOf(query.text, Len(query.text) + 1) |->
                                                         ResolveTier2(query.text, k, name)]]
              /\ answer'.stripped = StripJava(query.text)
              /\ answer'.type = JavaType(query.text)
            BY <2>4 DEF AskText
        <3> QED
            BY <3>1, <3>2
    <2>5. CASE AskExtract
        <3>1. answer'.op = "extract" /\ UNCHANGED query /\ query.op = "extract"
            BY <2>5 DEF AskExtract
        <3>2. answer'.texts = Extract(query.extraction.texts, query.extraction.kind, "new")
            BY <2>5 DEF AskExtract
        <3> QED
            BY <3>1, <3>2
    <2>8. CASE AskBatch
        <3>1. answer'.op = "batch" /\ UNCHANGED query /\ query.op = "batch"
            BY <2>8 DEF AskBatch
        <3>2. answer'.result =
                ApplyBatch(query.batch.disk, ParseChanges(query.batch.disk, query.batch.changes))
            BY <2>8 DEF AskBatch
        <3> QED
            BY <3>1, <3>2
    <2>9. CASE AskMove
        <3>1. answer'.op = "move" /\ UNCHANGED query /\ query.op = "move"
            BY <2>9 DEF AskMove
        <3>2. answer'.result =
                ApplyBatch(query.move.disk, MoveToFile(query.move.disk, query.move.answers, "d"))
            BY <2>9 DEF AskMove
        <3> QED
            BY <3>1, <3>2
    <2>6. CASE AskRust \/ AskGo \/ AskSnippet
        <3>1. answer'.op \notin {"text", "columns", "host", "extract", "edits", "batch", "move"}
            BY <2>6 DEF AskRust, AskGo, AskSnippet
        <3> QED
            BY <3>1
    <2>7. CASE Answered \/ UNCHANGED vars
        <3>1. UNCHANGED <<query, answer>>
            BY <2>7 DEF Answered, vars
        <3> QED
            BY <1>2, <3>1
    <2> QED
        BY <1>2, <2>1, <2>2, <2>3, <2>4, <2>5, <2>6, <2>7, <2>8, <2>9 DEF Next
<1> QED
    BY <1>1, <1>2, PTL DEF Spec

\* A name is found on a line exactly where it stands there once as a whole word
\* outside comments and literals: for every text.
THEOREM NamesAreFoundInCode == Spec => []NamesAreCode
<1>1. Asked /\ Answers => NamesAreCode
    <2> SUFFICES ASSUME Asked, Answers, answer.op = "text",
                        NEW name \in Names, NEW k \in 1 .. LineOf(query.text, Len(query.text) + 1)
                 PROVE  LET there == {i \in Words(query.text, name) : LineOf(query.text, i) = k}
                        IN answer.found[name][k] =
                               IF there = {} THEN NotFound
                               ELSE IF Cardinality(there) > 1 THEN Ambiguous ELSE CHOOSE i \in there : TRUE
        BY DEF NamesAreCode
    <2> DEFINE t == query.text
               last == LineOf(t, Len(t) + 1)
    <2>1. t \in Text
        BY QueriesAssumption DEF Asked, Answers, TextAnswered, Text
    <2>2. answer.found = [w \in Names |-> [h \in 0 .. last |-> ResolveTier2(t, h, w)]]
        BY DEF Answers, TextAnswered
    <2>3. k \in 0 .. last
        OBVIOUS
    <2> HIDE DEF t, last
    <2>4. answer.found[name][k] = ResolveTier2(t, k, name)
        BY <2>2, <2>3
    <2>5. NameMatches(t, name) = Words(t, name)
        BY <2>1, MatchesAreWords
    <2> QED
        BY <2>4, <2>5 DEF ResolveTier2, t, last
<1> QED
    BY <1>1, AskedAlways, AnswersAlways, PTL

\* The Java scanner keeps of legal Java exactly the code, each character at its
\* place, and the class it names is declared in code: for every text.
THEOREM JavaNamesAreDeclared == Spec => []JavaNameIsDeclared
<1>1. Asked /\ Answers => JavaNameIsDeclared
    <2> SUFFICES ASSUME Asked, Answers, answer.op = "text", JavaLike(query.text)
                 PROVE  JavaNameIsDeclared
        BY DEF JavaNameIsDeclared
    <2> DEFINE t == query.text
    <2>1. t \in Text
        BY QueriesAssumption DEF Asked, Answers, TextAnswered, Text
    <2>2. answer.stripped = StripJava(t) /\ answer.type.class = JavaClass(t)
        BY DEF Answers, TextAnswered, JavaType
    <2>3. Blanked(t, answer.stripped, Len(t))
        BY <2>1, <2>2, StripMeans
    <2>4. /\ Len(answer.stripped) = Len(t)
          /\ \A i \in 1 .. Len(t) :
                answer.stripped[i] = IF i \in InCode(t) \/ t[i] = "n" THEN t[i] ELSE "w"
        BY <2>3 DEF Blanked, Blank
    <2>5. answer.type.class # << >> =>
              \E i \in InCode(t) : /\ t[i] \in {"C", "I"}
                                   /\ Has(t, i + 1, answer.type.class)
                                   /\ i .. i + Len(answer.type.class) \subseteq InCode(t)
        BY <2>1, <2>2, JavaClassMeans
    <2> QED
        BY <2>4, <2>5 DEF JavaNameIsDeclared
<1> QED
    BY <1>1, AskedAlways, AnswersAlways, PTL

\* The fixed order of the phases makes of the files what the server's own order
\* makes of them, or refuses the batch for one of the three reasons; a move puts
\* the server's new file where the user asked for it.
THEOREM ServerEditsAreKept == Spec => []ServerEditsKept
<1>1. Asked /\ Answers => ServerEditsKept
    <2> SUFFICES ASSUME Asked, Answers PROVE ServerEditsKept
        OBVIOUS
    <2>1. ASSUME answer.op = "batch", InPhase(query.batch.changes)
          PROVE  BatchRight(query.batch.disk, query.batch.changes, answer.result)
        <3>1. query.batch \in Batches
            BY <2>1 DEF Asked, Answers, BatchAnswered
        <3>2. query.batch.disk \in Trees /\ query.batch.changes \in Seq(AnyChange)
            BY <3>1, QueriesAssumption, AskedChanges
        <3>3. answer.result = ApplyBatch(query.batch.disk, ParseChanges(query.batch.disk, query.batch.changes))
            BY <2>1 DEF Answers, BatchAnswered
        <3> QED
            BY <2>1, <3>2, <3>3, BatchIsRight
    <2>2. ASSUME answer.op = "move", answer.result.ok, InPhase(FlattenSeq(query.move.answers))
          PROVE  MoveRight(query.move.disk, FlattenSeq(query.move.answers), answer.result)
        <3> DEFINE disk == query.move.disk
                   A == query.move.answers
        <3>1. query.move \in Moves
            BY <2>2 DEF Asked, Answers, MoveAnswered
        <3>2. /\ disk \in Trees /\ "n" \notin DOMAIN disk /\ {"n", "d"} \subseteq Paths
              /\ A \in Seq(Seq(MoveChanges))
            BY <3>1, QueriesAssumption, AskedChanges
        <3>3. answer.result = ApplyBatch(disk, MoveToFile(disk, A, "d"))
            BY <2>2 DEF Answers, MoveAnswered
        <3>4. InPhase(FlattenSeq(A)) /\ ApplyBatch(disk, MoveToFile(disk, A, "d")).ok
            BY <2>2, <3>3
        <3> HIDE DEF disk, A
        <3>5. MoveRight(disk, FlattenSeq(A), ApplyBatch(disk, MoveToFile(disk, A, "d")))
            BY <3>2, <3>4, MoveIsRight
        <3> QED
            BY <3>3, <3>5 DEF disk, A
    <2> QED
        BY <2>1, <2>2 DEF ServerEditsKept, BatchRight, MoveRight
<1> QED
    BY <1>1, AskedAlways, AnswersAlways, PTL

\* The user's name replaces the placeholder of gopls everywhere and nothing else.
THEOREM ExtractionsAreNamed == Spec => []ExtractionIsNamed
<1>1. Asked /\ Answers => ExtractionIsNamed
    <2> SUFFICES ASSUME Asked, Answers, answer.op = "extract",
                        Shaped(query.extraction.texts, query.extraction.kind)
                 PROVE  LET e == query.extraction
                        IN \A i \in DOMAIN e.texts : \A k \in DOMAIN e.texts[i] :
                               answer.texts[i][k] = IF e.texts[i][k] = "p" THEN "new" ELSE e.texts[i][k]
        BY DEF ExtractionIsNamed
    <2>1. query.extraction.texts \in Seq(Seq(STRING))
        BY QueriesAssumption DEF Asked, Answers, ExtractAnswered
    <2>2. answer.texts = Extract(query.extraction.texts, query.extraction.kind, "new")
        BY DEF Answers, ExtractAnswered
    <2> QED
        BY <2>1, <2>2, ExtractMeans
<1> QED
    BY <1>1, AskedAlways, AnswersAlways, PTL

\* The conversions between byte columns and UTF-16 characters are inverse to each
\* other on every line of valid characters, and fail elsewhere.
THEOREM ColumnsAreInverse == Spec => []ColumnsRoundTrip
<1>1. Asked /\ Answers => ColumnsRoundTrip
    <2> SUFFICES ASSUME Asked, Answers, answer.op = "columns"
                 PROVE  ColumnsRoundTrip
        BY DEF ColumnsRoundTrip
    <2> DEFINE l == query.line
               columns == -1 .. Bytes(l) + 2
               valid == {ByteEnds(l)[k] + 1 : k \in 0 .. Len(l)}
               units == {UnitEnds(l)[k] : k \in 0 .. Len(l)}
    <2>1. /\ l \in Seq(1 .. 4)
          /\ answer.character = [b \in columns |-> ToCharacter(l, b)]
          /\ answer.column = [c \in columns |-> ToByteColumn(l, c)]
        BY QueriesAssumption DEF Asked, Answers, ColumnsAnswered
    <2>2. /\ \A b \in columns :
                IF b \in valid
                THEN ToCharacter(l, b) \in columns /\ ToByteColumn(l, ToCharacter(l, b)) = b
                ELSE ToCharacter(l, b) = -1
          /\ \A c \in columns :
                IF c \in units
                THEN ToByteColumn(l, c) \in columns /\ ToCharacter(l, ToByteColumn(l, c)) = c
                ELSE ToByteColumn(l, c) = -1
        BY <2>1, ColumnsMean
    <2> HIDE DEF columns, valid, units
    <2>3. DOMAIN answer.character = columns /\ DOMAIN answer.column = columns
        BY <2>1
    <2>4. ASSUME NEW b \in columns
          PROVE  IF b \in valid THEN answer.column[answer.character[b]] = b ELSE answer.character[b] = -1
        BY <2>1, <2>2
    <2>5. ASSUME NEW c \in columns
          PROVE  IF c \in units THEN answer.character[answer.column[c]] = c ELSE answer.column[c] = -1
        BY <2>1, <2>2
    <2> QED
        BY <2>3, <2>4, <2>5 DEF ColumnsRoundTrip, valid, units
<1> QED
    BY <1>1, AskedAlways, AnswersAlways, PTL

\* What doctor reports is what the two ways to a backend then find, for every
\* configuration that loads, every machine and every language it has a row for.
THEOREM DoctorTellsTheTruth == Spec => []DoctorAgrees
<1>1. Answers => DoctorAgrees
    <2> SUFFICES ASSUME Answers, answer.op = "host", answer.doctor # "no row",
                        ~Load(query.host.layers).broken,
                        \A l \in DOMAIN Load(query.host.layers).servers :
                            Load(query.host.layers).servers[l] # ""
                 PROVE  LET h == query.host
                        IN /\ answer.doctor = "not-claimed" <=> answer.tier2.error = "unsupported language"
                           /\ answer.doctor = "not-claimed" <=> answer.tier1.error = "unsupported language"
                           /\ answer.doctor = "missing" <=> answer.tier1.error = "server missing"
                           /\ (answer.doctor \notin {"missing", "not-claimed"} /\ h.op = "rename") =>
                                 answer.tier2.error = "none"
                           /\ (answer.adapter = "ok" /\ h.language \in Web /\ h.op = "rename") =>
                                 answer.tier2 = Rung("tsmorph", "")
        BY DEF DoctorAgrees
    <2> DEFINE h == query.host
    <2>1. /\ answer.doctor = ProbeServer(h.layers, h.language, h.ws)
          /\ answer.adapter = ProbeAdapter(h.ws)
          /\ answer.tier1 = BuildTier1(h.layers, h.language, h.ws)
          /\ answer.tier2 = BuildBackend(h.layers, h.language, h.ws, h.op)
        BY DEF Answers, HostAnswered
    <2>2. h.language \in DOMAIN SupportMatrix
        BY <2>1 DEF ProbeServer
    <2>3. Agrees(h.layers, h.language, h.ws, h.op)
        BY <2>2, DoctorMeans
    <2> QED
        BY <2>1, <2>3 DEF Agrees
<1> QED
    BY <1>1, AnswersAlways, PTL

\* Applying the edits one by one from the end of the file, each resolved against
\* the changed text, gives what they mean all at once, and a list is refused
\* exactly when it has no meaning: for every file and every list of edits.
THEOREM EditsApplySimultaneously == Spec => []AppliesSimultaneously
<1>1. Asked /\ Answers => AppliesSimultaneously
    <2> SUFFICES ASSUME Asked, Answers, answer.op = "edits"
                 PROVE  AppliesSimultaneously
        BY DEF AppliesSimultaneously
    <2>1. query.content \in Text /\ query.edits \in Seq(Edits)
        BY QueriesAssumption DEF Asked, Answers, EditsAnswered, Text, Edits
    <2>2. answer.applied = ApplyEdits(query.content, query.edits)
        BY DEF Answers, EditsAnswered
    <2> QED
        BY <2>1, <2>2, AppliesMeans DEF AppliesSimultaneously
<1> QED
    BY <1>1, AskedAlways, AnswersAlways, PTL

\* What a dry run shows is what applying then writes, for every file and list.
THEOREM PreviewShowsTheResult == Spec => []PreviewIsApplied
<1>1. Asked /\ Answers => PreviewIsApplied
    <2> SUFFICES ASSUME Asked, Answers, answer.op = "edits", answer.applied.ok
                 PROVE  answer.shown = answer.applied
        BY DEF PreviewIsApplied
    <2>1. query.content \in Text /\ query.edits \in Seq(Edits)
        BY QueriesAssumption DEF Asked, Answers, EditsAnswered, Text, Edits
    <2>2. /\ answer.applied = ApplyEdits(query.content, query.edits)
          /\ answer.shown = Preview(query.content, query.edits)
        BY DEF Answers, EditsAnswered
    <2> QED
        BY <2>1, <2>2, ShownIsApplied
<1> QED
    BY <1>1, AskedAlways, AnswersAlways, PTL
=============================================================================
