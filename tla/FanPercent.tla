------------------------------- MODULE FanPercent -------------------------------
(* How a duty cycle crosses the link between picod and the Pico: a single- *)
(* precision fraction on either side, a byte on the way (PACK_FAN_PWM and  *)
(* UNPACK_FAN_PWM of src/pico/pico_pkt_fan_pwm.h).                         *)
EXTENDS Integers

Byte == 0 .. 255

\* n / d in whole numbers, rounded to nearest, halves to even.
RoundEven(n, d) ==
    LET q == n \div d
        r == 2 * (n % d)
    IN  IF r > d \/ (r = d /\ q % 2 = 1) THEN q + 1 ELSE q

\* PACK_FAN_PWM: (uint8_t)(x * 100.0f) for x = n / 100.0f.  In single precision
\* the quotient is m / 2^e with 24 bits of m, the product is rounded to 24 bits
\* again, and the conversion cuts off the fraction.  It yields n, or n - 1.
Packed == [n \in Byte |->
    IF n = 0 THEN 0
    ELSE LET e == CHOOSE k \in 22 .. 30 : n * 2^k >= 100 * 2^23 /\ n * 2^k < 100 * 2^24
             m == RoundEven(n * 2^e, 100)
             s == IF m * 100 < 2^30 THEN 6 ELSE 7
         IN  RoundEven(m * 100, 2^s) \div 2^(e - s)]
=================================================================================
