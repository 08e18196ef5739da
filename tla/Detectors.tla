----------------------------- MODULE Detectors ------------------------------
(* The detectors of tflo-ops as transition functions: each takes the state   *)
(* and a sample and gives [st, out], out being the event ("None" when there  *)
(* is none).  And the stateless nodes: arithmetic with a domain, division.   *)
EXTENDS Trackers

Goes(st, out) == [st |-> st, out |-> out]

-----------------------------------------------------------------------------
(* CrossDetector: the sample before, compared with the threshold before,     *)
(* against this sample and this threshold.  mode is Both, Above or Under.    *)
CrossEdge(prev, e) ==
  IF prev = <<>> THEN "None"
  ELSE IF Less(prev[1].x, prev[1].y) /\ AtMost(e.y, e.x) THEN "Rising"
  ELSE IF AtMost(prev[1].y, prev[1].x) /\ Less(e.x, e.y) THEN "Falling"
  ELSE "None"
Cross(op, prev, e) ==
  LET edge == CrossEdge(prev, e)
      mute == (op.mode = "Above" /\ edge = "Falling") \/ (op.mode = "Under" /\ edge = "Rising")
  IN Goes(<<e>>, IF mute THEN "None" ELSE edge)

\* HysteresisCrossDetector; its first sample only chooses a side.
Hysteresis(op, side, e) ==
  CASE side = "Unknown" -> Goes(IF AtMost(e.y, e.x) THEN "Above" ELSE "Below", "None")
    [] side = "Below" /\ AtMost(Add(e.y, op.q), e.x) -> Goes("Above", "Rising")
    [] side = "Above" /\ AtMost(e.x, Sub(e.y, op.q)) -> Goes("Below", "Falling")
    [] OTHER -> Goes(side, "None")

-----------------------------------------------------------------------------
(* GlitchFilter and PulseWidthDetector: the start of the pulse that is high  *)
(* (<<>> when low).  A pulse lasts from its first high to its first low      *)
(* sample, by their timestamps.                                              *)
Pulse(op, start, e, Verdict(_)) ==
  LET high == AtMost(op.q, e.x)
  IN CASE start = <<>> /\ high -> Goes(<<e.ts>>, "None")
       [] start # <<>> /\ ~high -> Goes(<<>>, Verdict(e.ts - start[1]))
       [] OTHER -> Goes(start, "None")
Glitch(op, start, e) ==
  Pulse(op, start, e, LAMBDA width : IF width >= op.size THEN "ValidPulse" ELSE "Rejected")
PulseWidth(op, start, e) ==
  Pulse(op, start, e, LAMBDA width : IF width < op.size THEN "TooShort"
                                     ELSE IF width > op.most THEN "TooLong" ELSE "Valid")

-----------------------------------------------------------------------------
(* RuntDetector: a pulse starts when the signal leaves the low side and ends *)
(* when it is below low again; it is a runt if it never reached high.        *)
NoRunt == <<"None", Zero>>
NoPulse == [at |-> "BelowLow", reached |-> FALSE, peak |-> NegInfinity]
Runt(op, s, e) ==
  LET high == AtMost(op.high, e.x)
      low  == Less(e.x, op.low)
      peak == FMax(s.peak, e.x)
  IN CASE s.at = "BelowLow" /\ high ->
            Goes([at |-> "AboveHigh", reached |-> TRUE, peak |-> e.x], NoRunt)
       [] s.at = "BelowLow" /\ ~high /\ AtMost(op.low, e.x) ->
            Goes([at |-> "InTransition", reached |-> FALSE, peak |-> e.x], NoRunt)
       [] s.at # "BelowLow" /\ low ->
            Goes(NoPulse, <<IF s.reached THEN "ValidPulse" ELSE "Runt", peak>>)
       [] s.at # "BelowLow" /\ high ->
            Goes([at |-> "AboveHigh", reached |-> TRUE, peak |-> peak], NoRunt)
       [] s.at = "AboveHigh" /\ ~low /\ Less(e.x, op.high) ->
            Goes([s EXCEPT !.at = "InTransition", !.peak = peak], NoRunt)
       [] OTHER -> Goes([s EXCEPT !.peak = IF s.at = "BelowLow" THEN @ ELSE peak], NoRunt)

\* WindowDetector: a jump across the window reports nothing.
Zone(op, v) == IF Less(v, op.low) THEN "Below" ELSE IF Less(op.high, v) THEN "Above" ELSE "Inside"
WindowEvent(op, zone, e) ==
  LET new == Zone(op, e.x)
  IN Goes(new, CASE zone \in {"Below", "Above"} /\ new = "Inside" -> "EnteredWindow"
                 [] zone = "Inside" /\ new = "Below" -> "ExitedLow"
                 [] zone = "Inside" /\ new = "Above" -> "ExitedHigh"
                 [] OTHER -> "None")

-----------------------------------------------------------------------------
(* Sqrt, Ln, Log10 and Log2, and SafeDivOp.  A root or a logarithm is stood  *)
(* for by its argument; outside its domain it is what IEEE 754 says.         *)
Root(v) == IF Less(v, Zero) THEN NaN ELSE v
Log(v) == IF Less(v, Zero) THEN NaN ELSE IF v = Zero THEN NegInfinity ELSE v
SquareRoot(v) == IF Less(v, Zero) THEN Err("DomainError") ELSE Ok(Root(v))
Logarithm(v) == IF AtMost(v, Zero) THEN Err("DomainError") ELSE Ok(Log(v))

SafeDiv(num, denom) ==
  IF ~num.ok THEN num
  ELSE IF ~denom.ok THEN denom
  ELSE IF denom.v = Zero THEN Err("DivideByZero") ELSE Ok(Div(num.v, denom.v))
\* A two-input map node: the first absent input is the result.
Map2(Op(_, _), a, b) == IF ~a.ok THEN a ELSE IF ~b.ok THEN b ELSE Ok(Op(a.v, b.v))
=============================================================================
