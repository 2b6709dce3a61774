SPECIFICATION Spec
CONSTANTS
  Babel <- MCBabel
  CurrencyDigits <- MCCurrencyDigits
  MaxFormatDigits = 4
  Amounts <- MCAmounts
  Codes <- MCCodes
  NumberOptions <- MCNumberOptions
  MoneyOptions <- MCMoneyOptions
  Guesses <- MCGuesses
  Moments <- MCMoments
  DateCodes <- MCDateCodes
  Keys <- MCKeys
  MaxStrokes = 3
INVARIANTS AmountsComeBack GroupsAreChecked PluralSeesWhatIsPrinted DatesComeBack
