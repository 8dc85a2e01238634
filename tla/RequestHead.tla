---------------------------- MODULE RequestHead ----------------------------
(***************************************************************************)
(* What the proxy makes of the first chunks a client sends                 *)
(* (src/src/proxy.js, lines 181 to 363 and 392 to 452): it reads the       *)
(* request line, and for a plain HTTP request to a host to obfuscate it    *)
(* writes the head anew, line by line, as far as the chunk holds it; the   *)
(* rest follows as it is.  In a tunnel to such a host the next chunk is    *)
(* taken for the ClientHello: it gets another version and goes out in      *)
(* fragments.                                                              *)
(*                                                                         *)
(* The loops are a state machine.  A chunk is a sequence of bytes, as far  *)
(* as the code tells them apart; HOST stands for the five bytes "host:",   *)
(* in any case, and a token is a single unit.                              *)
(***************************************************************************)
EXTENDS Integers, Sequences, FiniteSets, FiniteSetsExt, SequencesExt

CONSTANTS
  LF, CR, SP, HOST,            \* SP: a space or a tab
  Methods, Targets, Versions,  \* the tokens that a request line may consist of
  Connect,                     \* the method CONNECT
  Words,                       \* other bytes
  MIXED, SEP, NL,              \* written: the host key, a separator, a new line
  Names, Lower,                \* host names, and what toLowerCase makes of them
  HostOf,                      \* the host in a target
  Lists,                       \* what the option hosts may be
  HANDSHAKE, TlsVersion,       \* 0x16, and httpsClientHelloTLSv as two bytes
  Sizes,                       \* what httpsClientHelloSize may be
  Chunks, Hellos               \* the chunks that a client may send first, and second

Bytes      == {LF, CR, SP, HOST} \cup Methods \cup Targets \cup Versions \cup Words
HelloBytes == UNION {ToSet(data) : data \in Hellos} \cup ToSet(TlsVersion)

ASSUME RequestHeadAssumption ==
  /\ Chunks \subseteq Seq(Bytes)
  /\ LF \notin {CR, SP} \cup Methods \cup Targets \cup Versions
  /\ {MIXED, SEP, NL} \cap Bytes = {} /\ MIXED \notin {SEP, NL}
  /\ Hellos \subseteq Seq(HelloBytes) /\ << >> \notin Hellos
  /\ TlsVersion \in Seq(HelloBytes) /\ Len(TlsVersion) = 2
  /\ Connect \in Methods /\ Sizes \subseteq Nat
  /\ HostOf \in [Targets -> Names] /\ Lower \in [Names -> Names] /\ Lists \subseteq SUBSET Names

VARIABLES
  hosts,      \* this.hosts
  size,       \* this.httpsClientHelloSize
  chunk,      \* firstData
  obfuscate,  \* mustObfuscate
  step,       \* where the listeners are
  offset,     \* firstDataOffset: how many bytes of the chunk are written
  out,        \* what was written to the upstream of it
  hello,      \* connData, as it came
  cut,        \* the i of the loop over its fragments
  pieces      \* the writes of it to the upstream

headVars  == <<chunk, obfuscate, offset, out>>
helloVars == <<hello, cut, pieces>>
vars == <<hosts, size, step, headVars, helloVars>>

\* The steps of a tunnel.
TunnelSteps == {"hello", "fragments", "relayed", "thrown"}

Init ==
  /\ hosts \in Lists /\ size \in Sizes
  /\ chunk \in Chunks /\ obfuscate = FALSE
  /\ step = "request" /\ offset = 0 /\ out = << >>
  /\ hello = << >> /\ cut = 0 /\ pieces = << >>

-----------------------------------------------------------------------------
(***************************************************************************)
(* #readLine: from offset at, the bytes of a line and its size with its    *)
(* end.  What has no end is a line too; there is none at the end.  A line  *)
(* that ends at the very first byte of the chunk is not recognised.        *)
(***************************************************************************)
\* The first end of a line after the first "at" bytes, if any.
EndAfter(at) == SelectInSubSeq(chunk, at + 1, Len(chunk), LAMBDA b : b = LF)

Unended(at) == [data |-> SubSeq(chunk, at + 1, Len(chunk)), size |-> Len(chunk) - at]

\* Mutant: every line ends in CR LF.
ReadLineTwoBytes(at) ==
  LET eol == EndAfter(at)
  IN  IF eol > 1
      THEN [data |-> SubSeq(chunk, at + 1, eol - 2), size |-> eol - at]
      ELSE Unended(at)

ReadLine(at) ==
  LET eol == EndAfter(at)
  IN  IF eol > 1
      THEN [data |-> SubSeq(chunk, at + 1, IF chunk[eol - 1] = CR THEN eol - 2 ELSE eol - 1),
            size |-> eol - at]
      ELSE Unended(at)

\* #tokenize: the runs of bytes between separators.  It gives the rest of the line as
\* a fourth token where there are more than three, which the listener refuses as well.
Tokens(line) ==
  LET starts == {i \in DOMAIN line : line[i] # SP /\ (i = 1 \/ line[i - 1] = SP)}
      \* The n-th of them.
      Start(n) == CHOOSE i \in starts : Cardinality({j \in starts : j < i}) = n - 1
      End(i) == Max({j \in i .. Len(line) : \A k \in i .. j : line[k] # SP})
  IN  [n \in 1 .. Cardinality(starts) |-> SubSeq(line, Start(n), End(Start(n)))]

Acceptable(tokens) ==
  /\ Len(tokens) = 3 /\ \A n \in 1 .. 3 : Len(tokens[n]) = 1
  /\ tokens[1][1] \in Methods /\ tokens[2][1] \in Targets /\ tokens[3][1] \in Versions

\* String.prototype.trim.
Trim(s) ==
  LET kept == {i \in DOMAIN s : s[i] \notin {SP, CR}}
  IN  IF kept = {} THEN << >> ELSE SubSeq(s, Min(kept), Max(kept))

\* A header line as it is written.
Header(line) ==
  IF line[1] = HOST THEN <<MIXED, SEP>> \o Trim(Tail(line)) \o <<NL>> ELSE line \o <<NL>>

-----------------------------------------------------------------------------
\* #parseOrigin: the host of a target, in lower case.
Origin(target) == Lower[HostOf[target]]

\* The list is as it was given.
MustObfuscate(target) == hosts = {} \/ Origin(target) \in hosts

Refuse ==
  /\ step = "request"
  /\ ~Acceptable(Tokens(ReadLine(0).data))
  /\ step' = "refused"
  /\ UNCHANGED <<hosts, size, headVars, helloVars>>

RequestLine ==
  /\ step = "request"
  /\ LET line   == ReadLine(0)
         tokens == Tokens(line.data)
     IN  /\ Acceptable(tokens) /\ tokens[1][1] # Connect
         /\ obfuscate' = MustObfuscate(tokens[2][1])
         /\ IF obfuscate'
            THEN /\ out' = tokens[1] \o <<SEP>> \o tokens[2] \o <<SEP>> \o tokens[3] \o <<NL>>
                 /\ offset' = line.size
                 /\ step' = "headers"
            ELSE step' = "rest" /\ UNCHANGED <<offset, out>>
  /\ UNCHANGED <<hosts, size, chunk, helloVars>>

\* Of the chunk with a CONNECT request nothing is written.
Tunnel ==
  /\ step = "request"
  /\ LET tokens == Tokens(ReadLine(0).data)
     IN  /\ Acceptable(tokens) /\ tokens[1][1] = Connect
         /\ obfuscate' = MustObfuscate(tokens[2][1])
         /\ step' = IF obfuscate' THEN "hello" ELSE "relayed"
  /\ UNCHANGED <<hosts, size, chunk, offset, out, helloVars>>

\* Mutant: the loop goes on after the empty line.
HeaderLineOnAndOn ==
  /\ step = "headers"
  /\ LET line == ReadLine(offset)
     IN  IF offset = Len(chunk)
         THEN step' = "rest" /\ UNCHANGED <<offset, out>>
         ELSE /\ out' = out \o (IF line.data = << >> THEN <<NL>> ELSE Header(line.data))
              /\ offset' = offset + line.size
              /\ UNCHANGED step
  /\ UNCHANGED <<hosts, size, chunk, obfuscate, helloVars>>

HeaderLine ==
  /\ step = "headers"
  /\ LET line == ReadLine(offset)
     IN  IF offset = Len(chunk) \/ line.data = << >>
         THEN step' = "rest" /\ UNCHANGED <<offset, out>>
         ELSE /\ out' = out \o Header(line.data)
              /\ offset' = offset + line.size
              /\ UNCHANGED step
  /\ UNCHANGED <<hosts, size, chunk, obfuscate, helloVars>>

Rest ==
  /\ step = "rest"
  /\ out' = out \o SubSeq(chunk, offset + 1, Len(chunk))
  /\ step' = "done"
  /\ UNCHANGED <<hosts, size, chunk, obfuscate, offset, helloVars>>

-----------------------------------------------------------------------------
IsHandshake(data) == data[1] = HANDSHAKE

\* The record that goes out for a hello: writeUInt16BE at its second byte.
Stamped(data) == <<data[1]>> \o TlsVersion \o SubSeq(data, 4, Len(data))

\* writeUInt16BE throws, outside of any try, where it would write past the end.
HelloThrows ==
  /\ step = "hello"
  /\ \E data \in Hellos : IsHandshake(data) /\ Len(data) < 3 /\ hello' = data
  /\ step' = "thrown"
  /\ UNCHANGED <<hosts, size, headVars, cut, pieces>>

\* Mutant: whatever comes first is stamped.
HelloDataStampsAll ==
  /\ step = "hello"
  /\ \E data \in Hellos :
       /\ Len(data) >= 3
       /\ hello' = data
       /\ IF IsHandshake(data) /\ size > 0
          THEN step' = "fragments" /\ UNCHANGED pieces
          ELSE step' = "relayed" /\ pieces' = <<Stamped(data)>>
  /\ UNCHANGED <<hosts, size, headVars, cut>>

HelloData ==
  /\ step = "hello"
  /\ \E data \in Hellos :
       /\ IsHandshake(data) => Len(data) >= 3
       /\ hello' = data
       /\ IF IsHandshake(data) /\ size > 0
          THEN step' = "fragments" /\ UNCHANGED pieces
          ELSE /\ step' = "relayed"
               /\ pieces' = <<IF IsHandshake(data) THEN Stamped(data) ELSE data>>
  /\ UNCHANGED <<hosts, size, headVars, cut>>

Subarray(data, from, to) == SubSeq(data, from + 1, Min({to, Len(data)}))

Fragment ==
  /\ step = "fragments"
  /\ IF cut < Len(hello)
     THEN /\ pieces' = Append(pieces, Subarray(Stamped(hello), cut, cut + size))
          /\ cut' = cut + size
          /\ UNCHANGED step
     ELSE step' = "relayed" /\ UNCHANGED <<cut, pieces>>
  /\ UNCHANGED <<hosts, size, headVars, hello>>

Next ==
  \/ Refuse \/ RequestLine \/ HeaderLine \/ Rest
  \/ Tunnel \/ HelloThrows \/ HelloData \/ Fragment

Spec == Init /\ [][Next]_vars

-----------------------------------------------------------------------------
(***************************************************************************)
(* Properties.                                                             *)
(***************************************************************************)
IsContent(b) == b \notin {LF, CR, SP, SEP, NL, MIXED, HOST}
Content(s)   == FlattenSeq([i \in DOMAIN s |-> IF IsContent(s[i]) THEN <<s[i]>> ELSE << >>])

\* How far the chunk has been dealt with.
Reached == IF step = "done" THEN Len(chunk) ELSE offset

\* At every moment, what was written holds the content of the chunk up to where it has
\* been dealt with, every byte once and in order, whatever was rewritten around it.  Of
\* the chunk that opens a tunnel nothing is written.
ContentKept ==
  Content(out) = IF step \in TunnelSteps THEN << >> ELSE Content(SubSeq(chunk, 1, Reached))

\* Where the empty line begins that ends the head, or the chunk ends: no line ends
\* there that is followed by another end of line, unless it is the empty one's.
HeadEnd ==
  LET blank == {i \in 1 .. Len(chunk) - 1 :
                  /\ chunk[i] = LF
                  /\ \/ chunk[i + 1] = LF
                     \/ chunk[i + 1] = CR /\ i + 2 <= Len(chunk) /\ chunk[i + 2] = LF}
  IN  IF blank = {} THEN Len(chunk) ELSE Min(blank)

\* Of a request that is obfuscated the head is written anew, all of it, and nothing else:
\* what follows it, from its empty line on, is what the client sent.  Every host line of
\* the head, and no other one, gets its mixed key (lines 319 to 341 and 355).
HeadRewritten ==
  step = "done" /\ obfuscate =>
    /\ offset = HeadEnd
    /\ \A i \in DOMAIN out : out[i] \in {MIXED, SEP, NL} => i <= Len(out) - (Len(chunk) - HeadEnd)
    /\ Cardinality({i \in DOMAIN out : out[i] = MIXED}) =
         Cardinality({i \in 2 .. HeadEnd : chunk[i] = HOST /\ chunk[i - 1] = LF})

\* New lines are written where the client's lines end and nowhere else: the newline
\* separator is "the string to use to separate new lines" (README.md, line 132).
NewlinesSeparateLines ==
  Len(SelectSeq(out, LAMBDA b : b = NL)) =
    IF step \in {"refused"} \cup TunnelSteps \/ ~obfuscate THEN 0
    ELSE Len(SelectSeq(SubSeq(chunk, 1, offset), LAMBDA b : b = LF))

\* In a tunnel the fragments make up the chunk that came, with the version of the record
\* as the only change, and none in what is no handshake.  Those of a handshake are of the
\* size asked for, and only the last may be shorter (lines 266 to 280).
HelloIntact ==
  step = "relayed" /\ obfuscate =>
    LET all == FlattenSeq(pieces)
    IN  /\ Len(all) = Len(hello)
        /\ \A i \in DOMAIN hello :
             all[i] = IF IsHandshake(hello) /\ i \in {2, 3} THEN TlsVersion[i - 1] ELSE hello[i]
        /\ IsHandshake(hello) /\ size > 0 =>
             /\ \A i \in 1 .. Len(pieces) - 1 : Len(pieces[i]) = size
             /\ Len(pieces[Len(pieces)]) \in 1 .. size
=============================================================================
