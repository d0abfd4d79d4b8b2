----------------------------- MODULE D10Capture ------------------------------
(***************************************************************************)
(* GET /capture of d10_proxy.py: tcpdump takes the first frames it sees    *)
(* into a file of the request's own, which is parsed and searched for      *)
(* sequence numbers that come twice, the copies of networks A and B.  The  *)
(* frames may be of several links, each with numbers of its own, which are *)
(* searched together.  What it answers depends only on what is on the wire *)
(* and on where tcpdump is cut off.                                        *)
(***************************************************************************)
EXTENDS Integers, FiniteSets

CONSTANTS Links,      \* the virtual links whose frames pass
          MaxFrames,  \* -c of tcpdump (24)
          SnMax       \* sequence numbers are 1..SnMax (255)

ASSUME CaptureAssumption == MaxFrames \in Nat \ {0} /\ SnMax \in Nat \ {0}

VARIABLE answer  \* the last answer; with history: how many frames it has twice,
                 \* and how many of the copies are not of link v

captureVars == <<answer>>
CaptureInit == answer = [count |-> 0, dup |-> 0, both |-> 0, besides |-> [v \in Links |-> 0]]

\* On the wire: frame i is of link[i], whose frames are numbered from first of
\* that link on, and passes as a copy of A and one of B.  Places tell the
\* copies: 1 and 2 are of the first frame, 3 and 4 of the next; wire are the
\* places of those not lost.
Frame(place) == (place + 1) \div 2
Copies(i) == {2 * i - 1, 2 * i}
SentBefore(link, i) == {h \in 1..i-1 : link[h] = link[i]}
Sn(link, first, i) == ((first[link[i]] + Cardinality(SentBefore(link, i)) - 1) % SnMax) + 1

\* With MaxFrames copies tcpdump ends; before, it is killed, and what it had
\* not written is not there; nor does _parse_pcap take a record that is cut.
Taken(wire) ==
  {taken \in {{j \in wire : j <= cut} : cut \in {0} \cup wire} :
     Cardinality(taken) = MaxFrames \/ Cardinality(wire) < MaxFrames}

\* Mutant of Distinct: those of the frames listed (the first half) only.
DistinctListed(link, first, taken) ==
  Cardinality({Sn(link, first, Frame(j)) : j \in {h \in taken : h <= MaxFrames \div 2}})
Distinct(link, first, taken) == Cardinality({Sn(link, first, Frame(j)) : j \in taken})
Dup(link, first, taken) == Cardinality(taken) - Distinct(link, first, taken)

\* A request, while n frames pass.
GetCapture ==
  \E n \in 0..SnMax, first \in [Links -> 1..SnMax] :
    \E link \in [1..n -> Links], wire \in SUBSET (1..(2 * n)) : \E taken \in Taken(wire) :
      answer' = [count |-> Cardinality(taken), dup |-> Dup(link, first, taken),
                 both |-> Cardinality({i \in 1..n : Copies(i) \subseteq taken}),
                 besides |-> [v \in Links |-> Cardinality({j \in taken : link[Frame(j)] # v})]]

CaptureSpec == CaptureInit /\ [][GetCapture]_captureVars

\* Whatever copies are lost and wherever the file ends, "dup" is at least the
\* number of frames of which both copies were captured, and no more than that
\* but for the frames of other links: exactly that when those captured are of
\* one link.  Beyond, numbers of two links may meet and count as duplicates
\* (what BUGS.md, B10, says of the detector).  As long as no more frames pass
\* than there are sequence numbers.
DupCountsCopies ==
  /\ answer.both <= answer.dup
  /\ \A v \in Links : answer.dup <= answer.both + answer.besides[v]
=============================================================================
