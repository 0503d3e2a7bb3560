CONSTANTS
    Voltages = {low, high}
    NaN = NaN
    OverrideTTL = 3
    MaxCommands = 2
    MaxTrouble = 3
SPECIFICATION Spec
PROPERTIES ReadsAreFresh LossIsExplained ShowsTheSupply
