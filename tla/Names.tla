-------------------------------- MODULE Names --------------------------------
(***************************************************************************)
(* The names scratch derives (internal/generator/params.go; the file names *)
(* of internal/handlers/render.go) have to agree with those of others: the *)
(* Go code protoc-gen-go generates from the contracts, the packages of the *)
(* templates, and what the go command takes for a source file.             *)
(*                                                                         *)
(* A name is a sequence of characters, a few of each kind.  The "state" is *)
(* a word that grows, so that TLC looks at every word there is.            *)
(***************************************************************************)
EXTENDS Naturals, SequencesExt

CONSTANTS Lower,     \* lower-case letters
          Up,        \* the capital of each
          Digits,
          Reserved,  \* words with a meaning at the end of a file name: test, linux
          MaxLength  \* bound on the words TLC looks at

Upper == {Up[c] : c \in Lower}
Letters == Lower \cup Upper
Marks == {"_", ".", "-"}

ASSUME LettersAssumption == /\ DOMAIN Up = Lower
                            /\ \A c, d \in Lower : Up[c] = Up[d] => c = d
                            /\ Lower \cap Upper = {}
                            /\ "X" \in Upper
                            /\ Digits \cap Letters = {}
                            /\ Marks \cap (Letters \cup Digits) = {}
ASSUME ReservedAssumption == Reserved \subseteq Seq(Lower)
ASSUME BoundAssumption == MaxLength \in Nat

VARIABLE word

-----------------------------------------------------------------------------
(* Characters. *)

Low(c) == IF c \in Upper THEN CHOOSE l \in Lower : Up[l] = c ELSE c
Raised(c) == IF c \in Lower THEN Up[c] ELSE c
ToLower(s) == [i \in DOMAIN s |-> Low(s[i])]
Only(s, S) == FlattenSeq([i \in DOMAIN s |-> IF s[i] \in S THEN <<s[i]>> ELSE << >>])

LowerAt(s, i) == i \in DOMAIN s /\ s[i] \in Lower
Is(s, i, c) == i \in DOMAIN s /\ s[i] = c

\* The last of the lower-case letters that follow position i, or i.
TailEnd(s, i) == CHOOSE j \in i .. Len(s) :
                   (\A k \in i + 1 .. j : s[k] \in Lower) /\ ~LowerAt(s, j + 1)

-----------------------------------------------------------------------------
(* params.go *)

\* Mutant: a digit begins a word as a letter does.
CamelDigitsAreLetters(s) ==
  LET from[i \in 1 .. Len(s) + 1] ==
        IF i > Len(s) THEN << >>
        ELSE IF s[i] = "." /\ LowerAt(s, i + 1) THEN from[i + 1]
        ELSE IF s[i] = "." THEN <<"_">> \o from[i + 1]
        ELSE IF s[i] = "_" /\ (i = 1 \/ Is(s, i - 1, ".")) THEN <<"X">> \o from[i + 1]
        ELSE IF s[i] = "_" /\ LowerAt(s, i + 1) THEN from[i + 1]
        ELSE <<Raised(s[i])>> \o SubSeq(s, i + 1, TailEnd(s, i)) \o from[TailEnd(s, i) + 1]
  IN from[1]

\* The loop and its switch, from position i on; the last case takes the lower-case
\* letters that follow along.
GoCamelCase(s) ==
  LET from[i \in 1 .. Len(s) + 1] ==
        IF i > Len(s) THEN << >>
        ELSE IF s[i] = "." /\ LowerAt(s, i + 1) THEN from[i + 1]
        ELSE IF s[i] = "." THEN <<"_">> \o from[i + 1]
        ELSE IF s[i] = "_" /\ (i = 1 \/ Is(s, i - 1, ".")) THEN <<"X">> \o from[i + 1]
        ELSE IF s[i] = "_" /\ LowerAt(s, i + 1) THEN from[i + 1]
        ELSE IF s[i] \in Digits THEN <<s[i]>> \o from[i + 1]
        ELSE <<Raised(s[i])>> \o SubSeq(s, i + 1, TailEnd(s, i)) \o from[TailEnd(s, i) + 1]
  IN from[1]

\* Mutant: capitals after the marks, as a title has them.
serviceTitle(name) ==
  Only([i \in DOMAIN name |-> IF i = 1 \/ name[i - 1] = "-" THEN Raised(name[i]) ELSE name[i]],
       Letters \cup Digits)

serviceName(name) == GoCamelCase([i \in DOMAIN name |-> IF name[i] = "-" THEN "_" ELSE name[i]])

ServerPackage(service) == Only(ToLower(service), Lower \cup Digits)

\* appNameRe.
IsAppName(name) == /\ name # << >> /\ name[1] \in Lower
                   /\ \A i \in DOMAIN name : name[i] \in Lower \cup Digits \cup {"-"}

\* What NewParams derives from a name that appNameRe accepts.  The service of the
\* contract is ServiceName with a suffix ("Service"), here any capitalised word.
AppName(name) == ToLower(name)
Package(name) == Only(name, Lower \cup Digits)
Suffix == LET c == CHOOSE c \in Lower : TRUE IN <<Up[c], c>>
ProtoService(name) == serviceName(name) \o Suffix
ServerPkg(name) == ServerPackage(ProtoService(name))

-----------------------------------------------------------------------------
(* render.go, and what the go command makes of a file name. *)

\* Mutant: a capital at the beginning is set apart too.
snakeLeading(s) ==
  FlattenSeq([i \in DOMAIN s |->
    IF s[i] \notin Upper THEN <<s[i]>>
    ELSE IF (i = 1 \/ s[i - 1] \notin Upper) \/ LowerAt(s, i + 1) THEN <<"_", Low(s[i])>>
    ELSE <<Low(s[i])>>])

snake(s) ==
  FlattenSeq([i \in DOMAIN s |->
    IF s[i] \notin Upper THEN <<s[i]>>
    ELSE IF i > 1 /\ (s[i - 1] \notin Upper \/ LowerAt(s, i + 1)) THEN <<"_", Low(s[i])>>
    ELSE <<Low(s[i])>>])

\* go/build: files that begin with "_" or "." are ignored, and those whose last
\* part after a "_" is "test" or names a system are not part of every build.
Ignored(file) == file[1] \in {"_", "."}
Conditional(file) == \E r \in Reserved :
  Len(file) > Len(r) /\ SubSeq(file, Len(file) - Len(r), Len(file)) = <<"_">> \o r

-----------------------------------------------------------------------------
Init == word = << >>

Next == /\ Len(word) < MaxLength
        /\ \E c \in Letters \cup Digits \cup Marks : word' = Append(word, c)

Spec == Init /\ [][Next]_word

\* An identifier of a contract.
IsIdent(s) == /\ s # << >> /\ s[1] \in Letters \cup {"_"}
              /\ \A i \in DOMAIN s : s[i] \in Letters \cup Digits \cup {"_"}

\* What becomes of position i, by its neighbours alone: the rules the comment on
\* GoCamelCase gives, without a loop.
CamelAt(s, i) ==
  CASE s[i] \in Lower -> IF i = 1 \/ s[i - 1] \in Digits \cup {"_", "."}
                         THEN <<Up[s[i]]>> ELSE <<s[i]>>
    [] s[i] = "_" -> IF i = 1 \/ Is(s, i - 1, ".") THEN <<"X">>
                     ELSE IF LowerAt(s, i + 1) THEN << >> ELSE <<"_">>
    [] s[i] = "." -> IF LowerAt(s, i + 1) THEN << >> ELSE <<"_">>
    [] OTHER -> <<s[i]>>

\* The rules of protoc-gen-go, whose names the generated code refers to: the loop,
\* in which one case eats what belongs to the next characters, comes to what the
\* rules say of each character by itself.
CamelByRules ==
  GoCamelCase(word) = FlattenSeq([i \in DOMAIN word |-> CamelAt(word, i)])

\* The names of one project agree: the service has one name in the contract and in
\* the Go code (a fixed point of GoCamelCase, also with its suffix), the package
\* that handlers derives from the contract is the one new has made, and deriving
\* everything once more from the name in the manifest changes nothing.
NamesAgree ==
  LET name == AppName(word) IN
  IsAppName(name) =>
    /\ GoCamelCase(serviceName(name)) = serviceName(name)
    /\ GoCamelCase(ProtoService(name)) = ProtoService(name)
    /\ ServerPkg(name) = Package(name) \o ToLower(Suffix)
    /\ AppName(name) = name

\* The stub of an rpc is a Go file that every build takes in, unless the method's
\* name ends in a word of its own that the go command reserves ("RunTest"); and
\* the file names the method, up to case and underscores.
StubsAreBuilt ==
  IsIdent(word) =>
    LET method == GoCamelCase(word)
        file == snake(method)
    IN /\ ~Ignored(file)
       /\ Only(file, Letters \cup Digits) = Only(ToLower(method), Letters \cup Digits)
       /\ Conditional(file) => \E r \in Reserved :
            LET k == Len(method) - Len(r) + 1 IN
            /\ SubSeq(ToLower(method), k, Len(method)) = r
            /\ method[k] \in Upper \/ method[k - 1] = "_"
=============================================================================
