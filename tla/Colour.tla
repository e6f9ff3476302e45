-------------------------------- MODULE Colour --------------------------------
(***************************************************************************)
(* The arithmetic of jscolor.js: colours as hue, saturation and value, as  *)
(* red, green and blue, and as the text of the field.  Numbers are exact   *)
(* fractions <<n, d>> where the program has doubles.                       *)
(***************************************************************************)
EXTENDS Integers, Sequences

Positive == Nat \ {0}
Fraction == Int \X Positive

Gcd[p \in Nat \X Nat] == IF p[2] = 0 THEN p[1] ELSE Gcd[<<p[2], p[1] % p[2]>>]
Abs(n)     == IF n < 0 THEN -n ELSE n
Q(n, d)    == LET g == Gcd[<<Abs(n), d>>] IN <<n \div g, d \div g>>    \* d > 0
Number(n)  == <<n, 1>>
Plus(p, q)  == Q(p[1] * q[2] + q[1] * p[2], p[2] * q[2])
Minus(p, q) == Q(p[1] * q[2] - q[1] * p[2], p[2] * q[2])
Times(p, q) == Q(p[1] * q[1], p[2] * q[2])
Over(p, q)  == IF q[1] > 0 THEN Q(p[1] * q[2], p[2] * q[1])
               ELSE Q((-p[1]) * q[2], p[2] * (-q[1]))
Leq(p, q)   == p[1] * q[2] <= q[1] * p[2]
Least(p, q) == IF Leq(p, q) THEN p ELSE q
Most(p, q)  == IF Leq(p, q) THEN q ELSE p
Clip(lo, hi, p) == Most(lo, Least(hi, p))
Floor(p)    == p[1] \div p[2]
Round(p)    == (2 * p[1] + p[2]) \div (2 * p[2])

NoHue == <<-1, 1>>     \* null

-----------------------------------------------------------------------------
(* Conversions *)

\* Hue, saturation and value of c; a value of 100 is 255 (20 / 51 = 100 / 255).
RGB_HSV(c) ==
  LET n == Least(Least(c[1], c[2]), c[3])
      v == Most(Most(c[1], c[2]), c[3])
      m == Minus(v, n)
      h == IF c[1] = n THEN Plus(Number(3), Over(Minus(c[3], c[2]), m))
           ELSE IF c[2] = n THEN Plus(Number(5), Over(Minus(c[1], c[3]), m))
           ELSE Plus(Number(1), Over(Minus(c[2], c[1]), m))
  IN  IF m[1] = 0 THEN <<NoHue, Number(0), Times(v, <<20, 51>>)>>
      ELSE <<Times(Number(60), IF h = Number(6) THEN Number(0) ELSE h),
             Times(Number(100), Over(m, v)), Times(v, <<20, 51>>)>>

\* Back again.  The hue is never null here: fromRGB keeps the last one.
HSV_RGB(hsv) ==
  LET u == Times(hsv[3], <<51, 20>>)
      h == Times(hsv[1], <<1, 60>>)
      s == Times(hsv[2], <<1, 100>>)
      i == Floor(h)
      f == IF i % 2 = 1 THEN Minus(h, Number(i))
           ELSE Minus(Number(i + 1), h)
      m == Times(u, Minus(Number(1), s))
      n == Times(u, Minus(Number(1), Times(s, f)))
  IN  << <<u, n, m>>, <<n, u, m>>, <<m, u, n>>,
         <<m, n, u>>, <<n, m, u>>, <<u, m, n>> >>[(i % 6) + 1]

-----------------------------------------------------------------------------
(* Text.  <<"hex", digits>> and <<"rgb", parameters>> are the notations of a *)
(* colour, whatever stands around them and in either case; <<"blank", <<>>>> *)
(* is nothing but space and <<"other", <<>>>> everything else.               *)

Hex(c) ==
  <<"hex", [i \in 1 .. 6 |-> LET n == Round(c[(i + 1) \div 2])
                             IN  IF i % 2 = 1 THEN n \div 16 ELSE n % 16]>>

\* toString: two digits for each of red, green and blue.
toString(c) == Hex(c)

NoColour == <<>>

\* What a field may say.
Digit == 0 .. 15
Text  == ({"hex"} \X Seq(Digit)) \cup ({"rgb"} \X Seq(Fraction))
         \cup {<<"blank", <<>>>>, <<"other", <<>>>>}

\* What fromString reads out of a text.
Parsed(t) ==
  IF t[1] = "hex" /\ Len(t[2]) = 6
  THEN [i \in 1 .. 3 |-> Number(16 * t[2][2 * i - 1] + t[2][2 * i])]
  ELSE IF t[1] = "hex" /\ Len(t[2]) = 3
  THEN [i \in 1 .. 3 |-> Number(17 * t[2][i])]
  ELSE IF t[1] = "rgb" /\ Len(t[2]) >= 3
  THEN [i \in 1 .. 3 |-> t[2][i]]
  ELSE NoColour

\* Whether black or white text is drawn on c.
isLight(c) ==
  ~Leq(Plus(Plus(Times(<<213, 1000>>, c[1]), Times(<<143, 200>>, c[2])),
            Times(<<9, 125>>, c[3])), <<255, 2>>)

-----------------------------------------------------------------------------
(* Colours of a picker with limits *)

\* The arguments of fromHSV, of which Keep stands for null, brought into range.
Keep == <<>>

\* Mutant: only the limits of the options count.
fromHSVUnclipped(lim, hsv, h, s, v) ==
  <<IF h = Keep THEN hsv[1] ELSE Clip(Number(0), Number(360), h),
    IF s = Keep THEN hsv[2] ELSE Least(lim.maxS, s),
    IF v = Keep THEN hsv[3] ELSE Least(lim.maxV, v)>>

fromHSV(lim, hsv, h, s, v) ==
  <<IF h = Keep THEN hsv[1] ELSE Clip(Number(0), Number(360), h),
    IF s = Keep THEN hsv[2]
    ELSE Most(Most(Number(0), Least(Least(Number(100), lim.maxS), s)), lim.minS),
    IF v = Keep THEN hsv[3]
    ELSE Most(Most(Number(0), Least(Least(Number(100), lim.maxV), v)), lim.minV)>>

\* Mutant: the value is scaled to the limit.
fromRGBScaled(lim, hsv, c) ==
  LET new == RGB_HSV([i \in 1 .. 3 |-> Clip(Number(0), Number(255), c[i])])
  IN  <<IF new[1] = NoHue THEN hsv[1] ELSE new[1],
        IF new[3] = Number(0) THEN hsv[2] ELSE Clip(lim.minS, lim.maxS, new[2]),
        Plus(lim.minV, Times(new[3], Times(Minus(lim.maxV, lim.minV), <<1, 100>>)))>>

\* fromRGB: grey keeps the hue, black keeps the saturation as well.
fromRGB(lim, hsv, c) ==
  LET new == RGB_HSV([i \in 1 .. 3 |-> Clip(Number(0), Number(255), c[i])])
  IN  <<IF new[1] = NoHue THEN hsv[1] ELSE Clip(Number(0), Number(360), new[1]),
        IF new[3] = Number(0) THEN hsv[2]
        ELSE Most(Most(Number(0), lim.minS), Least(Least(Number(100), lim.maxS), new[2])),
        Most(Most(Number(0), lim.minV), Least(Least(Number(100), lim.maxV), new[3]))>>

NoLimits == [minS |-> Number(0), maxS |-> Number(100),
             minV |-> Number(0), maxV |-> Number(100)]

\* Limits are percentages.
LimitsOK(lim) ==
  \A p \in {lim.minS, lim.maxS, lim.minV, lim.maxV} :
    p \in Fraction /\ Leq(Number(0), p) /\ Leq(p, Number(100))

\* A colour c that is typed, dissected and put together again is the same colour
\* (RGB_HSV and HSV_RGB, jscolor.js:1307-1353).
RoundTrip(c) ==
  LET rgb == [i \in 1 .. 3 |-> Number(c[i])]
      hsv == <<Number(0), Number(0), Number(100)>>
  IN  toString(HSV_RGB(fromRGB(NoLimits, hsv, rgb))) = toString(rgb)
=============================================================================
