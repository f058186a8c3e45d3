---------------------------- MODULE FpioaTable ----------------------------
(***************************************************************************)
(* function_config of drivers/fpioa.c: how a pad is set for each of the    *)
(* 256 functions that a pin can be routed to, and which inputs are tied    *)
(* while no pin is.  The entry of function f is the one with index f + 1;  *)
(* its ch_sel is f, and pad_di and the reserved bits are 0.                *)
(*                                                                         *)
(* Only ten kinds of entries occur.                                        *)
(***************************************************************************)
EXTENDS Integers, Sequences

\* fpioa_assign_t
Off ==
    [ds |-> 0, oe_en |-> 0, oe_inv |-> 0, do_sel |-> 0, do_inv |-> 0, pu |-> 0, pd |-> 0,
     sl |-> 0, ie_en |-> 0, ie_inv |-> 0, di_inv |-> 0, st |-> 0, tie_en |-> 0, tie_val |-> 0]

In == [Off EXCEPT !.ie_en = 1, !.st = 1]
Out == [Off EXCEPT !.ds = 15, !.oe_en = 1]
InOut == [In EXCEPT !.ds = 15, !.oe_en = 1]
\* The peripheral says when the pad drives and when it listens.
Lane == [InOut EXCEPT !.oe_inv = 1, !.ie_inv = 1]
\* High while no pin is routed to it.
Tied == [In EXCEPT !.tie_en = 1, !.tie_val = 1]
OpenDrain == [In EXCEPT !.oe_en = 1, !.pu = 1, !.sl = 1]

Times(n, entry) == [i \in 1 .. n |-> entry]

\* JTAG.
Jtag == <<In, In, In, Out>>

\* SPI0.
Spi0Data == Times(8, Lane)
Spi0Control == Times(4, Out) \o <<Tied, Out>>

\* UARTHS, reserved, and clock outputs.
UarthsAndClocks == <<In, Out, In, In, Out, Out>>

\* GPIOHS and GPIO.
Gpiohs0To7 == Times(8, InOut)
Gpiohs8To15 == Times(8, InOut)
Gpiohs16To23 == Times(8, InOut)
Gpiohs24To31 == Times(8, InOut)
Gpio == Times(8, InOut)

\* Receiver and transmitter of UART1 to UART3.
Uarts == <<In, Out, In, Out, In, Out>>

\* SPI1 and the SPI slave.
Spi1Data == Times(8, Lane)
Spi1Control == Times(4, Out) \o <<Tied, Out>>
SpiSlave == <<Lane, In, In>>

\* I2S: three clocks, four inputs and four outputs each.
I2s0Clocks == Times(3, Out)
I2s0Data == Times(4, In) \o Times(4, Out)
I2s1Clocks == Times(3, Out)
I2s1Data == Times(4, In) \o Times(4, Out)
I2s2Clocks == Times(3, Out)
I2s2Data == Times(4, In) \o Times(4, Out)

\* Reserved, I2C, camera.
Reserved == Times(6, Off)
I2c == Times(6, OpenDrain)
CmosControl == Times(3, Out) \o Times(3, In)
CmosData == Times(8, In)
Sccb == Times(2, [OpenDrain EXCEPT !.oe_inv = 1])

\* Modem lines of UART1 to UART3: five inputs and nine outputs each.
Uart1Inputs == Times(5, In)
Uart1Outputs == Times(9, Out)
Uart2Inputs == Times(5, In)
Uart2Outputs == Times(9, Out)
Uart3Inputs == Times(5, In)
Uart3Outputs == Times(9, Out)

\* Timers.
Timer0 == Times(4, Out)
Timer1 == Times(4, Out)
Timer2 == Times(4, Out)

\* Clock outputs and internal functions, the constant among them.
ClocksAndInternal == Times(7, Out)
InternalMixed == Times(4, Out) \o Times(4, In)
InternalPulled == <<[In EXCEPT !.pu = 1], [InOut EXCEPT !.pu = 1, !.sl = 1]>>
InternalLast == Times(3, In) \o <<Off, In>>

\* Debug.
Debug0To7 == Times(8, Out)
Debug8To15 == Times(8, Out)
Debug16To23 == Times(8, Out)
Debug24To31 == Times(8, Out)

FUNC_MAX == 256

function_config ==
    Jtag \o Spi0Data \o Spi0Control \o UarthsAndClocks \o Gpiohs0To7 \o Gpiohs8To15
    \o Gpiohs16To23 \o Gpiohs24To31 \o Gpio \o Uarts \o Spi1Data \o Spi1Control
    \o SpiSlave \o I2s0Clocks \o I2s0Data \o I2s1Clocks \o I2s1Data \o I2s2Clocks
    \o I2s2Data \o Reserved \o I2c \o CmosControl \o CmosData \o Sccb \o Uart1Inputs
    \o Uart1Outputs \o Uart2Inputs \o Uart2Outputs \o Uart3Inputs \o Uart3Outputs
    \o Timer0 \o Timer1 \o Timer2 \o ClocksAndInternal \o InternalMixed
    \o InternalPulled \o InternalLast \o Debug0To7 \o Debug8To15 \o Debug16To23
    \o Debug24To31

=============================================================================
