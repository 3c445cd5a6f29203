\* The shell's number commands over 8-bit words.
SPECIFICATION NumbersSpec
CONSTANTS
    HEX_DIGITS = 2
    Texts <- MCTexts
    Operations <- MCOperations
    Addresses <- MCAddresses
INVARIANTS
    CalcExact
    AddressesRoundTrip
\* A trapped division stops the machine.
CHECK_DEADLOCK FALSE
